---------------------------- MODULE Spec2Model ----------------------------
(***************************************************************************)
(* A model of webpp's basic_uri<std::string> (core/include/webpp/utils/    *)
(* uri.h): the buffer, the seven lazily resolved offsets, the parse_*      *)
(* steps, the accessors and the setters, and the two percent-encoding      *)
(* functions.  Characters are byte values 0..255, strings are sequences of *)
(* bytes, and std::size_t arithmetic is taken modulo SizeMod.              *)
(***************************************************************************)
EXTENDS Integers, Sequences, FiniteSets, TLC

VARIABLES
    data,             \* basic_uri::data, the buffer
    scheme_end,       \* the seven mutable offsets, NPOS = unknown
    authority_start,
    user_info_end,
    port_start,
    authority_end,
    query_start,
    fragment_start,
    alive,            \* FALSE once std::terminate / a hardened-build trap ran
                      \* or a call does not return
    hardened,         \* the build: TRUE when the standard library traps on
                      \* an out-of-range operator[]
    muts,             \* number of setter / assignment calls made so far
    last,             \* the last call on the URI: its name and its result
    cin,              \* codec: the input text of the last codec call
    cset,             \* codec: the allowed set of the last codec call
    cout,             \* codec: what the last codec call returned
    threads           \* the calls of the two reader threads: the accessor,
                      \* the statement reached, the stores of parse_scheme
                      \* still to be made, the value returned

vars == <<data, scheme_end, authority_start, user_info_end, port_start,
          authority_end, query_start, fragment_start, alive, hardened, muts,
          last, cin, cset, cout, threads>>

uri_vars == <<data, scheme_end, authority_start, user_info_end, port_start,
              authority_end, query_start, fragment_start, alive, hardened,
              muts, last>>

codec_vars == <<cin, cset, cout>>

-----------------------------------------------------------------------------
(* Bounds of the model.                                                    *)

\* longest buffer drawn from the raw alphabet in Init
MaxLen == 3

\* setter / assignment calls per behaviour
MaxMutations == 1

\* longest text given to the codec
MaxText == 3

-----------------------------------------------------------------------------
(* Characters and std::size_t.                                             *)

\* std::size_t is modelled with 16 bits: every buffer of the model is far
\* shorter, so wrap-around of a difference behaves as it does with 64 bits.
SizeMod == 2 ^ 16

NPOS == SizeMod - 1

Add(a, b) == (a + b) % SizeMod

Sub(a, b) == (a - b + SizeMod) % SizeMod

MinOf(a, b) == IF a <= b THEN a ELSE b

\* the byte value of a character literal of the source
Ord(c) ==
    CASE c = "#" -> 35  [] c = "%" -> 37  [] c = "&" -> 38  [] c = "+" -> 43
      [] c = "-" -> 45  [] c = "." -> 46  [] c = "/" -> 47  [] c = "0" -> 48
      [] c = "1" -> 49  [] c = "2" -> 50  [] c = "8" -> 56  [] c = "9" -> 57
      [] c = ":" -> 58  [] c = "=" -> 61  [] c = "?" -> 63  [] c = "@" -> 64
      [] c = "A" -> 65  [] c = "F" -> 70  [] c = "G" -> 71  [] c = "Z" -> 90
      [] c = "[" -> 91  [] c = "]" -> 93  [] c = "^" -> 94  [] c = "_" -> 95
      [] c = "a" -> 97  [] c = "b" -> 98  [] c = "f" -> 102 [] c = "g" -> 103
      [] c = "h" -> 104 [] c = "p" -> 112 [] c = "q" -> 113 [] c = "r" -> 114
      [] c = "s" -> 115 [] c = "u" -> 117 [] c = "z" -> 122 [] c = " " -> 32
      [] c = "!" -> 33  [] c = "$" -> 36  [] c = "'" -> 39  [] c = "(" -> 40
      [] c = ")" -> 41  [] c = "*" -> 42  [] c = "," -> 44  [] c = ";" -> 59
      [] c = "~" -> 126 [] c = "n" -> 110 [] c = "e" -> 101 [] c = "o" -> 111
      [] c = "t" -> 116 [] c = "x" -> 120 [] c = "m" -> 109 [] c = "l" -> 108
      [] c = "c" -> 99  [] c = "v" -> 118 [] c = "4" -> 52  [] c = "i" -> 105
      [] c = "k" -> 107 [] c = "3" -> 51  [] c = "5" -> 53  [] c = "6" -> 54
      [] c = "d" -> 100 [] c = "w" -> 119 [] c = "y" -> 121

\* a string literal of the source as a sequence of bytes
RECURSIVE S(_)
S(lit) == IF lit = <<>> THEN <<>> ELSE <<Ord(Head(lit))>> \o S(Tail(lit))

Chars(lits) == {Ord(c) : c \in lits}

ALPHA == (Ord("A")..Ord("Z")) \cup (Ord("a")..Ord("z"))

DIGIT == Ord("0")..Ord("9")

\* ALLOWED_CHARACTERS_IN_URI with '%' allowed as well
ALLOWED_CHARACTERS_IN_URI_and_percent ==
    ALPHA \cup DIGIT \cup
    Chars({";", ",", "/", "?", ":", "@", "&", "=", "+", "$",
           "-", "_", ".", "!", "~", "*", "'", "(", ")", "#", "%"})

ALLOWED_CHARACTERS_IN_URI ==
    ALPHA \cup DIGIT \cup
    Chars({";", ",", "/", "?", ":", "@", "&", "=", "+", "$",
           "-", "_", ".", "!", "~", "*", "'", "(", ")", "#"})

SCHEME_NOT_FIRST == ALPHA \cup DIGIT \cup Chars({"+", "-", "."})

UNRESERVED == ALPHA \cup DIGIT \cup Chars({"-", ".", "_", "~"})

SUB_DELIMS == Chars({"!", "$", "&", "'", "(", ")", "*", "+", ",", ";", "="})

USER_INFO_NOT_PCT_ENCODED == UNRESERVED \cup SUB_DELIMS \cup Chars({":"})

REG_NAME_NOT_PCT_ENCODED == UNRESERVED \cup SUB_DELIMS

PCHAR_NOT_PCT_ENCODED == UNRESERVED \cup SUB_DELIMS \cup Chars({":", "@"})

QUERY_OR_FRAGMENT_NOT_PCT_ENCODED == PCHAR_NOT_PCT_ENCODED \cup Chars({"/", "?"})

-----------------------------------------------------------------------------
(* std::string_view operations, positions counted from 0.                  *)

SetMin(I) == CHOOSE i \in I : \A j \in I : i <= j

SetMax(I) == CHOOSE i \in I : \A j \in I : i >= j

\* string_view::find(c, from) / find_first_of(c)
find(s, c, from) ==
    LET I == {i \in (from + 1)..Len(s) : s[i] = c}
    IN  IF I = {} THEN NPOS ELSE SetMin(I) - 1

\* string_view::find_last_of(c)
find_last_of(s, c) ==
    LET I == {i \in 1..Len(s) : s[i] = c}
    IN  IF I = {} THEN NPOS ELSE SetMax(I) - 1

\* string_view::find_first_not_of(set)
find_first_not_of(s, set) ==
    LET I == {i \in 1..Len(s) : s[i] \notin set}
    IN  IF I = {} THEN NPOS ELSE SetMin(I) - 1

\* string_view::substr(pos, n) for pos <= size(); it throws for pos > size()
sv_substr(s, pos, n) ==
    SubSeq(s, pos + 1, pos + MinOf(n, Len(s) - pos))

starts_with(s, p) ==
    Len(s) >= Len(p) /\ SubSeq(s, 1, Len(p)) = p


-----------------------------------------------------------------------------
(* The percent-encoding codec.  A build has a signed or an unsigned plain  *)
(* char; sc = TRUE is the signed one.                                      *)

HexDigits == DIGIT \cup (Ord("A")..Ord("F")) \cup (Ord("a")..Ord("f"))

\* the value of a byte read as plain char
CharValue(b, sc) == IF sc /\ b >= 128 THEN b - 256 ELSE b

\* the lambda make_hex_digit: static_cast<char> keeps the low eight bits
make_hex_digit(value) ==
    IF value < 10 THEN value + Ord("0")
    ELSE (value - 10 + Ord("A")) % 256

\* static_cast<unsigned int>(c) >> 4u: a negative c converts to 2^32 + c,
\* whose quotient by 16 is 2^28 + floor(c / 16)
HighNibbleArg(c) == IF c >= 0 THEN c \div 16 ELSE (2 ^ 28) + (c \div 16)

\* static_cast<unsigned int>(c) & 0x0Fu
LowNibbleArg(c) == c % 16

\* one iteration of the loop of encode_uri_component
encode_char(b, allowedCharacters, sc) ==
    IF b \in allowedCharacters THEN <<b>>
    ELSE <<Ord("%"),
           make_hex_digit(HighNibbleArg(CharValue(b, sc))),
           make_hex_digit(LowNibbleArg(CharValue(b, sc)))>>

RECURSIVE encode_uri_component(_, _, _)
encode_uri_component(element, allowedCharacters, sc) ==
    IF element = <<>> THEN <<>>
    ELSE encode_char(Head(element), allowedCharacters, sc)
         \o encode_uri_component(Tail(element), allowedCharacters, sc)

\* the value a hexadecimal digit adds to decoded_char; -1 for any other byte
HexValue(c) ==
    IF c \in DIGIT THEN c - Ord("0")
    ELSE IF c \in Ord("A")..Ord("F") THEN c - Ord("A") + 10
    ELSE IF c \in Ord("a")..Ord("f") THEN c - Ord("a") + 10
    ELSE -1

\* the loop of decode_uri_component from position i (1-based) on, with the
\* locals decoding, digits_left, decoded_char and res; the result is
\* [some |-> FALSE] for std::nullopt and [some |-> TRUE, val |-> res] otherwise
RECURSIVE decode_loop(_, _, _, _, _, _, _)
decode_loop(encoded_str, allowed_chars, i, decoding, digits_left, decoded_char, res) ==
    IF i > Len(encoded_str) THEN [some |-> TRUE, val |-> res]
    ELSE
      LET c == encoded_str[i] IN
      IF decoding /\ digits_left # 0 THEN
          IF HexValue(c) < 0 THEN [some |-> FALSE, val |-> <<>>]
          ELSE
            LET dc == (((decoded_char * 16) % 256) + HexValue(c)) % 256 IN
            IF digits_left - 1 = 0
            THEN decode_loop(encoded_str, allowed_chars, i + 1, FALSE, 0, dc,
                             Append(res, dc))
            ELSE decode_loop(encoded_str, allowed_chars, i + 1, decoding,
                             digits_left - 1, dc, res)
      ELSE IF c = Ord("%") THEN
          decode_loop(encoded_str, allowed_chars, i + 1, TRUE, 2, 0, res)
      ELSE IF c \notin allowed_chars THEN [some |-> FALSE, val |-> <<>>]
      ELSE decode_loop(encoded_str, allowed_chars, i + 1, decoding, digits_left,
                       decoded_char, Append(res, c))

decode_uri_component(encoded_str, allowed_chars) ==
    decode_loop(encoded_str, allowed_chars, 1, FALSE, 2, 0, <<>>)


-----------------------------------------------------------------------------
(* Validators of webpp/validators (is::digit, is::scheme, is::query,       *)
(* is::ipv6): their code is not part of the sources at hand.               *)

\* is::digit(string_view): every character is a digit
is_digit(str) == \A i \in 1..Len(str) : str[i] \in DIGIT

\* is::scheme: a letter, then scheme-tail characters
is_scheme(str) ==
    /\ Len(str) >= 1
    /\ str[1] \in ALPHA
    /\ \A i \in 2..Len(str) : str[i] \in SCHEME_NOT_FIRST

\* is::query: query characters and percent signs only
is_query(str) ==
    \A i \in 1..Len(str) :
        str[i] \in QUERY_OR_FRAGMENT_NOT_PCT_ENCODED \cup {Ord("%")}

\* is::ipv6: hexadecimal groups separated by at least two colons
is_ipv6(str) ==
    /\ Cardinality({i \in 1..Len(str) : str[i] = Ord(":")}) >= 2
    /\ \A i \in 1..Len(str) : str[i] \in HexDigits \cup Chars({":", "."})

-----------------------------------------------------------------------------
(* The URI value: the buffer and the seven offsets, as one record, so that *)
(* the parse_* steps can be composed the way the member functions call one *)
(* another.                                                                *)

\* a basic_uri holding text d, as its constructors leave it
basic_uri(d) ==
    [data |-> d, scheme_end |-> NPOS, authority_start |-> NPOS,
     user_info_end |-> NPOS, port_start |-> NPOS, authority_end |-> NPOS,
     query_start |-> NPOS, fragment_start |-> NPOS, alive |-> TRUE]

\* basic_uri::parse_scheme
parse_scheme(u, ub) ==
    IF ~u.alive \/ u.scheme_end # NPOS THEN u
    ELSE
      LET _data    == u.data
          size     == Len(u.data)
          colon    == find(_data, Ord(":"), 0)
          __scheme == sv_substr(_data, 0, colon)
      IN
      IF starts_with(_data, S(<<"/", "/">>))
      THEN [u EXCEPT !.authority_start = 2, !.scheme_end = size]
      ELSE IF colon # NPOS /\ colon = 0 /\ ub = "trap"
      THEN [u EXCEPT !.alive = FALSE]
      ELSE IF /\ colon # NPOS
              /\ _data[1] \in ALPHA
              /\ find_first_not_of(sv_substr(__scheme, 1, NPOS),
                                   SCHEME_NOT_FIRST) # 0
      THEN [u EXCEPT !.scheme_end = colon,
                     !.authority_start =
                         IF sv_substr(_data, colon + 1, 2) = S(<<"/", "/">>)
                         THEN colon + 3
                         ELSE size]
      ELSE [u EXCEPT !.scheme_end = size, !.authority_start = size]

\* basic_uri::parse_fragment
parse_fragment(u) ==
    IF ~u.alive \/ u.fragment_start # NPOS THEN u
    ELSE
      LET hash == find(u.data, Ord("#"), 0)
      IN  [u EXCEPT !.fragment_start =
                        IF hash = NPOS THEN Len(u.data) ELSE hash]

\* parse_query after its call of parse_fragment: f is the object by then
find_query(f) ==
    LET qmark == find(sv_substr(f.data, 0, f.fragment_start), Ord("?"), 0)
    IN  [f EXCEPT !.query_start =
                      IF qmark = NPOS THEN Len(f.data) ELSE qmark]

\* basic_uri::parse_query
parse_query(u) ==
    IF ~u.alive \/ u.query_start # NPOS THEN u
    ELSE find_query(parse_fragment(u))

\* parse_path after its calls of parse_scheme and parse_query
find_authority_end(q) ==
    IF ~q.alive THEN q
    ELSE
      LET size == Len(q.data)
          starting_point ==
              IF q.authority_start # size THEN q.authority_start
              ELSE IF q.scheme_end # size /\ q.scheme_end # NPOS
                   THEN q.scheme_end
                   ELSE 0
          slash == find(sv_substr(q.data, starting_point,
                                  Sub(q.query_start, starting_point)),
                        Ord("/"), 0)
      IN  IF starting_point > size THEN [q EXCEPT !.alive = FALSE]
          ELSE [q EXCEPT !.authority_end =
                             IF slash = NPOS THEN size
                             ELSE Add(slash, starting_point)]

\* basic_uri::parse_path
parse_path(u, ub) ==
    IF ~u.alive \/ u.authority_end # NPOS THEN u
    ELSE find_authority_end(parse_query(parse_scheme(u, ub)))

\* "user_info_end = _data.substr(...).find_first_of('@');": the member holds
\* the index inside the authority, or npos
find_at(p) ==
    IF ~p.alive THEN p
    ELSE IF p.authority_start > Len(p.data) THEN [p EXCEPT !.alive = FALSE]
    ELSE [p EXCEPT !.user_info_end =
                       find(sv_substr(p.data, p.authority_start,
                                      Sub(p.authority_end, p.authority_start)),
                            Ord("@"), 0)]

\* the if / else that ends parse_user_info
adjust_user_info_end(p) ==
    IF ~p.alive THEN p
    ELSE [p EXCEPT !.user_info_end =
                       IF p.user_info_end = NPOS THEN Len(p.data)
                       ELSE Add(p.user_info_end, p.authority_start)]

\* find_user_info_end without "user_info_end += authority_start": the offset
\* stays relative to the authority
find_user_info_end_relative(p) ==
    IF ~p.alive THEN p
    ELSE
      LET at == find(sv_substr(p.data, p.authority_start,
                               Sub(p.authority_end, p.authority_start)),
                     Ord("@"), 0)
      IN  [p EXCEPT !.user_info_end = IF at = NPOS THEN Len(p.data) ELSE at]

\* parse_user_info after its call of parse_path
find_user_info_end(p) == adjust_user_info_end(find_at(p))

\* parse_user_info after its call of parse_scheme
user_info_after_scheme(s, ub) ==
    IF ~s.alive THEN s
    ELSE IF s.authority_start = Len(s.data)
    THEN [s EXCEPT !.user_info_end = Len(s.data)]
    ELSE find_user_info_end(parse_path(s, ub))

\* basic_uri::parse_user_info
parse_user_info(u, ub) ==
    IF ~u.alive \/ u.user_info_end # NPOS THEN u
    ELSE user_info_after_scheme(parse_scheme(u, ub), ub)

\* parse_port after its call of parse_path, from starting_point on
find_port_start(p, starting_point) ==
    LET size     == Len(p.data)
        colon    == find_last_of(
                        sv_substr(p.data, starting_point,
                                  Sub(p.authority_end, starting_point)),
                        Ord(":"))
        at_colon == Add(colon, starting_point)
    IN  [p EXCEPT !.port_start =
                      IF colon = NPOS THEN size
                      ELSE IF ~is_digit(sv_substr(p.data, at_colon + 1,
                                   Sub(p.authority_end, at_colon + 1)))
                      THEN size
                      ELSE at_colon]

\* parse_port after its call of parse_path
port_after_path(p) ==
    IF ~p.alive THEN p
    ELSE find_port_start(p, IF p.user_info_end # Len(p.data)
                            THEN p.user_info_end
                            ELSE p.authority_start)

\* parse_port after its call of parse_user_info
port_after_user_info(i, ub) ==
    IF ~i.alive THEN i
    ELSE IF i.authority_start = Len(i.data)
    THEN [i EXCEPT !.port_start = Len(i.data)]
    ELSE port_after_path(parse_path(i, ub))

\* basic_uri::parse_port
parse_port(u, ub) ==
    IF ~u.alive \/ u.port_start # NPOS THEN u
    ELSE port_after_user_info(parse_user_info(u, ub), ub)

\* basic_uri::parse_host
parse_host(u, ub) ==
    parse_path(parse_port(parse_user_info(u, ub), ub), ub)

\* basic_uri::unparse
unparse(u) ==
    [u EXCEPT !.scheme_end = NPOS, !.authority_start = NPOS,
              !.user_info_end = NPOS, !.port_start = NPOS,
              !.authority_end = NPOS, !.query_start = NPOS,
              !.fragment_start = NPOS]

\* basic_uri::substr(start, len) throws std::out_of_range when it reaches
\* string_view::substr with start > size()
substr_throws(u, start, len) == len # 0 /\ start > Len(u.data)

\* basic_uri::substr(start, len)
substr(u, start, len) ==
    IF len = 0 THEN <<>> ELSE sv_substr(u.data, start, len)


-----------------------------------------------------------------------------
(* The read accessors.  Each takes the URI value and yields the value      *)
(* after the call (the offsets it resolved) and what the call returned.    *)
(* Every accessor is noexcept: an exception inside it ends the process,    *)
(* which is u.alive = FALSE.                                               *)

\* the value of "return substr(start, len);" inside a noexcept accessor
ReturnSubstr(p, start, len) ==
    IF ~p.alive THEN [u |-> p, ret |-> <<>>]
    ELSE IF substr_throws(p, start, len)
    THEN [u |-> [p EXCEPT !.alive = FALSE], ret |-> <<>>]
    ELSE [u |-> p, ret |-> substr(p, start, len)]

Return(p, value) == [u |-> p, ret |-> value]

\* has_scheme after its call of parse_scheme
scheme_present(p) ==
    Return(p, p.alive /\ (p.scheme_end # Len(p.data) \/ p.scheme_end = 0))

\* basic_uri::has_scheme
has_scheme(u, ub) == scheme_present(parse_scheme(u, ub))

\* scheme() with the colon after the scheme
scheme_slice_with_colon(p) ==
    IF p.alive /\ p.scheme_end = Len(p.data) THEN Return(p, <<>>)
    ELSE ReturnSubstr(p, 0, Add(p.scheme_end, 1))

\* scheme() after its call of parse_scheme
scheme_slice(p) ==
    IF p.alive /\ p.scheme_end = Len(p.data) THEN Return(p, <<>>)
    ELSE ReturnSubstr(p, 0, p.scheme_end)

\* basic_uri::scheme() const
scheme(u, ub) == scheme_slice(parse_scheme(u, ub))

\* has_user_info after its call of parse_user_info
user_info_present(p) ==
    Return(p, /\ p.alive
              /\ p.user_info_end # Len(p.data)
              /\ p.authority_start # Len(p.data))

\* has_user_info with the offsets read before parse_user_info has run
has_user_info_unparsed(u, ub) ==
    Return(parse_user_info(u, ub),
           /\ u.alive
           /\ u.user_info_end # Len(u.data)
           /\ u.authority_start # Len(u.data))

\* basic_uri::has_user_info
has_user_info(u, ub) == user_info_present(parse_user_info(u, ub))

\* user_info() after its call of parse_user_info
user_info_slice(p) ==
    IF p.alive /\ (\/ p.user_info_end = Len(p.data)
                   \/ p.authority_start = Len(p.data))
    THEN Return(p, <<>>)
    ELSE ReturnSubstr(p, p.authority_start,
                      Sub(p.user_info_end, p.authority_start))

\* basic_uri::user_info() const
user_info(u, ub) == user_info_slice(parse_user_info(u, ub))

\* the local start of host()
host_start(p) ==
    IF p.user_info_end = Len(p.data) THEN p.authority_start
    ELSE p.user_info_end

\* the local len of host(), given its start
host_len(p, start) ==
    IF p.port_start # Len(p.data) THEN Sub(p.port_start, start)
    ELSE IF p.authority_end # Len(p.data) THEN Sub(p.authority_end, start)
    ELSE Sub(Len(p.data), 1)

\* host() after its call of parse_host
host_slice(p) ==
    IF p.alive /\ p.authority_start = Len(p.data) THEN Return(p, <<>>)
    ELSE ReturnSubstr(p, host_start(p), host_len(p, host_start(p)))

\* basic_uri::host() const
host(u, ub) == host_slice(parse_host(u, ub))

\* has_host, given what host() returned
not_empty(h) == Return(h.u, h.u.alive /\ h.ret # <<>>)

\* basic_uri::has_host
has_host(u, ub) == not_empty(host(u, ub))

\* port() after its call of parse_port
port_slice(p) ==
    IF p.alive /\ p.port_start = Len(p.data) THEN Return(p, <<>>)
    ELSE ReturnSubstr(p, Add(p.port_start, 1),
                      Sub(IF p.authority_end = Len(p.data)
                          THEN Sub(p.authority_end, 1)
                          ELSE p.authority_end,
                          Add(p.port_start, 1)))

\* basic_uri::port() const
port(u, ub) == port_slice(parse_port(u, ub))

\* has_port after its call of parse_port
port_present(p) == Return(p, p.alive /\ p.port_start # Len(p.data))

\* basic_uri::has_port
has_port(u, ub) == port_present(parse_port(u, ub))

\* has_path after its call of parse_path
path_present(p) == Return(p, p.alive /\ p.authority_end # Len(p.data))

\* basic_uri::has_path
has_path(u, ub) == path_present(parse_path(u, ub))

\* path_slice with the path running to the fragment, whether or not a query
\* comes first
path_slice_to_fragment(h) ==
    IF ~h.ret THEN Return(h.u, <<>>)
    ELSE ReturnSubstr(h.u, h.u.authority_end,
                      Sub(h.u.fragment_start, h.u.authority_end))

\* path(), given what has_path() returned
path_slice(h) ==
    IF ~h.ret THEN Return(h.u, <<>>)
    ELSE ReturnSubstr(h.u, h.u.authority_end,
                      Sub(MinOf(h.u.query_start, h.u.fragment_start),
                          h.u.authority_end))

\* basic_uri::path() const
path(u, ub) == path_slice(has_path(u, ub))

\* has_query after its call of parse_query
query_present(p) == Return(p, p.alive /\ p.query_start # Len(p.data))

\* basic_uri::has_query
has_query(u, ub) == query_present(parse_query(u))

\* query() after its call of parse_query
query_slice(p) ==
    IF p.alive /\ p.query_start = Len(p.data) THEN Return(p, <<>>)
    ELSE ReturnSubstr(p, Add(p.query_start, 1),
                      Sub(Sub(p.fragment_start, p.query_start), 1))

\* basic_uri::query() const
query(u, ub) == query_slice(parse_query(u))

\* fragment() after its call of parse_fragment
fragment_slice(p) == ReturnSubstr(p, Add(p.fragment_start, 1), NPOS)

\* basic_uri::fragment() const
fragment(u, ub) == fragment_slice(parse_fragment(u))

\* has_fragment after its call of parse_fragment
fragment_present(p) == Return(p, p.alive /\ p.fragment_start # Len(p.data))

\* basic_uri::has_fragment
has_fragment(u, ub) == fragment_present(parse_fragment(u))

\* has_authority: "|| has_user_info()", evaluated unless h is already true
or_has_user_info(h, ub) ==
    IF h.ret \/ ~h.u.alive THEN h ELSE has_user_info(h.u, ub)

\* has_authority: "|| has_port()", evaluated unless i is already true
or_has_port(i, ub) ==
    IF i.ret \/ ~i.u.alive THEN i ELSE has_port(i.u, ub)

\* basic_uri::has_authority
has_authority(u, ub) ==
    or_has_port(or_has_user_info(has_host(u, ub), ub), ub)

\* is_urn, given what scheme() returned
urn_scheme(s) ==
    Return(s.u, /\ s.u.alive
                /\ s.ret = S(<<"u", "r", "n">>)
                /\ s.u.authority_start = Len(s.u.data))

\* basic_uri::is_urn
is_urn(u, ub) == urn_scheme(scheme(u, ub))

\* basic_uri::has_username: it reads user_info_end as it is
has_username(u, ub) == Return(u, u.user_info_end # Len(u.data))

\* the read accessors of the model
Accessors ==
    {"has_scheme", "scheme", "has_user_info", "user_info", "host", "has_host",
     "port", "has_port", "has_path", "path", "has_query", "query", "fragment",
     "has_fragment", "has_authority", "is_urn", "has_username"}

\* the call a.(), by name
Call(a, u, ub) ==
    CASE a = "has_scheme"    -> has_scheme(u, ub)
      [] a = "scheme"        -> scheme(u, ub)
      [] a = "has_user_info" -> has_user_info(u, ub)
      [] a = "user_info"     -> user_info(u, ub)
      [] a = "host"          -> host(u, ub)
      [] a = "has_host"      -> has_host(u, ub)
      [] a = "port"          -> port(u, ub)
      [] a = "has_port"      -> has_port(u, ub)
      [] a = "has_path"      -> has_path(u, ub)
      [] a = "path"          -> path(u, ub)
      [] a = "has_query"     -> has_query(u, ub)
      [] a = "query"         -> query(u, ub)
      [] a = "fragment"      -> fragment(u, ub)
      [] a = "has_fragment"  -> has_fragment(u, ub)
      [] a = "has_authority" -> has_authority(u, ub)
      [] a = "is_urn"        -> is_urn(u, ub)
      [] a = "has_username"  -> has_username(u, ub)


-----------------------------------------------------------------------------
(* The setters and the assignment.  Each takes the URI value and the new   *)
(* text and yields the value after the call and how the call ended: "ok",  *)
(* or "invalid_argument" when std::invalid_argument left the function.     *)
(* An exception in a noexcept setter ends the process (alive = FALSE).     *)

ends_with(s, c) == s # <<>> /\ s[Len(s)] = c

\* basic_uri::replace_value
replace_value(u, start, len, replacement) ==
    IF ~u.alive THEN u
    ELSE IF start = NPOS \/ len = NPOS \/ (len = 0 /\ replacement = <<>>)
    THEN u
    ELSE unparse([u EXCEPT !.data =
                     substr(u, 0, start) \o replacement
                         \o sv_substr(u.data,
                                      MinOf(Len(u.data), Add(start, len)),
                                      NPOS)])

\* basic_uri::operator=(StringType const&)
assign(u, text) == unparse([u EXCEPT !.data = text])

\* "//"
two_slashes == S(<<"/", "/">>)

\* the scheme setter's argument without a trailing ':'
without_colon(arg) ==
    IF ends_with(arg, Ord(":")) THEN SubSeq(arg, 1, Len(arg) - 1) ELSE arg

\* the local scheme_colon of the scheme setter
scheme_colon(__scheme) ==
    IF __scheme = <<>> THEN <<>> ELSE __scheme \o S(<<":">>)

\* the scheme setter after its call of parse_scheme
put_scheme(p, __scheme) ==
    IF ~p.alive THEN p
    ELSE IF p.scheme_end # Len(p.data)
    THEN replace_value(p, 0,
             IF /\ __scheme = <<>>
                /\ Len(p.data) > p.scheme_end + 1
                /\ p.data[p.scheme_end + 1] = Ord(":")
             THEN p.scheme_end + 1
             ELSE p.scheme_end,
             __scheme)
    ELSE IF p.authority_start # Len(p.data)
    THEN replace_value(p, 0, 0,
             scheme_colon(__scheme) \o
                 (IF starts_with(p.data, two_slashes) THEN <<>>
                  ELSE two_slashes))
    ELSE replace_value(p, 0, 0, scheme_colon(__scheme))

\* basic_uri::scheme(std::string_view)
set_scheme(u, arg, ub) ==
    IF ~is_scheme(without_colon(arg)) THEN Return(u, "invalid_argument")
    ELSE Return(put_scheme(parse_scheme(u, ub), without_colon(arg)), "ok")

\* the user_info setter where the URI has no authority: after parse_scheme
put_authority_user_info(s, insertion) ==
    IF ~s.alive THEN s
    ELSE IF s.scheme_end = Len(s.data)
    THEN replace_value(s, 0, 0, insertion)
    ELSE replace_value(s, Add(s.scheme_end, 1), 0, insertion)

\* the user_info setter after its call of parse_user_info
put_user_info(p, encoded_info, ub) ==
    IF ~p.alive THEN p
    ELSE IF p.user_info_end = Len(p.data) \/ p.authority_start = Len(p.data)
    THEN replace_value(p, p.authority_start,
                       Sub(p.user_info_end, p.authority_start), encoded_info)
    ELSE IF p.authority_start = Len(p.data)
    THEN put_authority_user_info(parse_scheme(p, ub),
             two_slashes \o encoded_info \o S(<<"@">>))
    ELSE replace_value(p, p.authority_start, 0, encoded_info \o S(<<"@">>))

\* basic_uri::user_info(std::string_view const&)
set_user_info(u, info, ub, sc) ==
    Return(put_user_info(parse_user_info(u, ub),
               encode_uri_component(info, USER_INFO_NOT_PCT_ENCODED, sc), ub),
           "ok")

\* the local encoded_host of the host setter before the authority is looked at
bracketed(new_host, encoded) ==
    IF /\ ~starts_with(new_host, S(<<"[">>)) \/ ~ends_with(new_host, Ord("]"))
       /\ is_ipv6(new_host)
    THEN S(<<"[">>) \o encoded \o S(<<"]">>)
    ELSE encoded

\* the local start of the host setter
put_host_start(p) ==
    IF p.user_info_end = Len(p.data)
    THEN IF p.scheme_end = Len(p.data) THEN 0 ELSE p.authority_start
    ELSE p.user_info_end

\* the local finish of the host setter
put_host_finish(p) ==
    IF p.port_start # Len(p.data) THEN p.port_start
    ELSE IF p.authority_end # Len(p.data) THEN p.authority_end
    ELSE Sub(Len(p.data), 1)

\* the host setter after its call of parse_host
put_host(p, new_host, encoded_host) ==
    IF ~p.alive THEN p
    ELSE IF p.authority_start = Len(p.data)
    THEN IF encoded_host = <<>> THEN p
         ELSE IF p.scheme_end = Len(p.data)
         THEN replace_value(p, 0, 0, two_slashes \o encoded_host)
         ELSE replace_value(p, p.scheme_end, 0, two_slashes \o encoded_host)
    ELSE replace_value(p, put_host_start(p),
             Sub(put_host_finish(p), put_host_start(p)),
             IF /\ p.user_info_end = Len(p.data)
                /\ p.scheme_end = Len(p.data)
                /\ new_host # <<>>
                /\ ~starts_with(encoded_host, two_slashes)
             THEN two_slashes \o encoded_host
             ELSE encoded_host)

\* basic_uri::host(std::string_view const&)
set_host(u, new_host, ub, sc) ==
    Return(put_host(parse_host(u, ub), new_host,
               bracketed(new_host,
                   encode_uri_component(new_host, REG_NAME_NOT_PCT_ENCODED,
                                        sc))),
           "ok")

\* the port setter's argument without a leading ':'
without_leading_colon(arg) ==
    IF starts_with(arg, S(<<":">>)) THEN Tail(arg) ELSE arg

\* the port setter where the URI has no port: after its call of parse_host
insert_port(h, colon_port) ==
    IF ~h.alive THEN h
    ELSE IF h.authority_end # Len(h.data)
    THEN replace_value(h, h.authority_end, 0, colon_port)
    ELSE IF h.user_info_end # Len(h.data)
    THEN replace_value(h, Add(h.user_info_end, 1), Add(h.user_info_end, 1),
                       colon_port)
    ELSE IF h.authority_start # Len(h.data)
    THEN replace_value(h, Add(h.authority_start, 1), 0, colon_port)
    ELSE IF h.scheme_end = Len(h.data)
    THEN replace_value(h, 0, 0, two_slashes \o colon_port)
    ELSE replace_value(h, Add(h.scheme_end, 1), 0, two_slashes \o colon_port)

\* the port setter after its call of parse_port
put_port(p, new_port, ub) ==
    IF ~p.alive THEN p
    ELSE IF p.port_start = Len(p.data)
    THEN insert_port(parse_host(p, ub), S(<<":">>) \o new_port)
    ELSE replace_value(p, Add(p.port_start, 1),
                       IF p.authority_end = Len(p.data)
                       THEN Sub(p.authority_end, 1)
                       ELSE p.authority_end,
                       new_port)

\* basic_uri::port(std::string_view): noexcept, so its throw ends the process
set_port(u, arg, ub) ==
    IF ~is_digit(without_leading_colon(arg))
    THEN Return([u EXCEPT !.alive = FALSE], "ok")
    ELSE Return(put_port(parse_port(u, ub), without_leading_colon(arg), ub),
                "ok")

\* the path setter after its call of parse_path
put_path(p, _encoded_path) ==
    replace_value(p, p.authority_end, Sub(p.query_start, p.authority_end),
                  _encoded_path)

\* basic_uri::path(std::string_view const&)
set_path(u, __path, ub, sc) ==
    Return(put_path(parse_path(u, ub),
               (IF starts_with(__path, S(<<"/">>)) THEN <<>> ELSE S(<<"/">>))
                   \o encode_uri_component(
                          __path, PCHAR_NOT_PCT_ENCODED \cup Chars({"/"}), sc)),
           "ok")

\* the query setter where the URI has neither query nor fragment: after its
\* call of parse_path
insert_query(p, encoded_query) ==
    IF ~p.alive THEN p
    ELSE IF p.authority_end = Len(p.data)
    THEN IF p.authority_start = Len(p.data)
         THEN IF p.scheme_end = Len(p.data)
              THEN replace_value(p, 0, 0,
                       S(<<"/", "/", "/">>) \o encoded_query)
              ELSE replace_value(p, p.scheme_end, 0,
                                 S(<<"/">>) \o encoded_query)
         ELSE replace_value(p, p.authority_start, 0,
                            S(<<"/">>) \o encoded_query)
    ELSE IF p.data[p.authority_end + 1] = Ord("/")
    THEN replace_value(p, Add(p.authority_end, 1), 0, encoded_query)
    ELSE replace_value(p, Add(p.authority_end, 1), 0,
                       S(<<"/">>) \o encoded_query)

\* the query setter after its call of parse_query
put_query(q, encoded_query, ub) ==
    IF q.query_start = Len(q.data)
    THEN replace_value(q, q.query_start,
                       Sub(q.fragment_start, q.query_start), encoded_query)
    ELSE IF q.fragment_start # Len(q.data)
    THEN replace_value(q, q.fragment_start, 0, encoded_query)
    ELSE insert_query(parse_path(q, ub), encoded_query)

\* basic_uri::query(std::string_view const&)
set_query(u, __query, ub, sc) ==
    IF ~is_query(__query) THEN Return(u, "invalid_argument")
    ELSE Return(put_query(parse_query(u),
                    (IF starts_with(__query, S(<<"?">>)) THEN <<>>
                     ELSE S(<<"?">>))
                        \o encode_uri_component(
                               __query, QUERY_OR_FRAGMENT_NOT_PCT_ENCODED, sc),
                    ub),
                "ok")

-----------------------------------------------------------------------------
(* The state machine of one basic_uri<std::string> object.                 *)

\* the two threads that read the object, and a thread that has made no call
Threads == {"t1", "t2"}

NoCall == [op |-> "none", pc |-> "idle", stores |-> <<>>, result |-> <<>>]

\* the object as the record the operators above work on
Self ==
    [data |-> data, scheme_end |-> scheme_end,
     authority_start |-> authority_start, user_info_end |-> user_info_end,
     port_start |-> port_start, authority_end |-> authority_end,
     query_start |-> query_start, fragment_start |-> fragment_start,
     alive |-> alive]

\* what the build does at the out-of-range read of parse_scheme
Build == IF hardened THEN "trap" ELSE "read"

\* the object becomes r
Becomes(r) ==
    /\ data' = r.data
    /\ scheme_end' = r.scheme_end
    /\ authority_start' = r.authority_start
    /\ user_info_end' = r.user_info_end
    /\ port_start' = r.port_start
    /\ authority_end' = r.authority_end
    /\ query_start' = r.query_start
    /\ fragment_start' = r.fragment_start
    /\ alive' = r.alive

\* the strings over an alphabet, up to length n
RECURSIVE StringsOver(_, _)
StringsOver(alphabet, n) ==
    IF n = 0 THEN {<<>>}
    ELSE {<<>>} \cup {<<c>> \o s : c \in alphabet, s \in StringsOver(alphabet, n - 1)}

RawAlphabet == Chars({"a", "1", ":", "/", "?", "#", "@"})

RawStrings(n) == StringsOver(RawAlphabet, n)

\* URIs put together from a choice for each component
ComposedURIs ==
    {S(s) \o S(a) \o S(p) \o S(q) \o S(f) :
        s \in {<<>>, <<"s", ":">>},
        a \in {<<>>, <<"/", "/">>, <<"/", "/", "h">>,
               <<"/", "/", "u", "@", "h">>, <<"/", "/", "h", ":", "8">>,
               <<"/", "/", "u", "@", "h", ":", "8", "0">>,
               <<"/", "/", "u", "@">>, <<"/", "/", ":", "8">>},
        p \in {<<>>, <<"/">>, <<"/", "p">>},
        q \in {<<>>, <<"?">>, <<"?", "q">>},
        f \in {<<>>, <<"#">>, <<"#", "f">>}}

\* foo://example.com:8042/over/there?name=ferret#nose
DocURL ==
    S(<<"f", "o", "o", ":", "/", "/", "e", "x", "a", "m", "p", "l", "e", ".",
        "c", "o", "m", ":", "8", "0", "4", "2", "/", "o", "v", "e", "r", "/",
        "t", "h", "e", "r", "e", "?", "n", "a", "m", "e", "=", "f", "e", "r",
        "r", "e", "t", "#", "n", "o", "s", "e">>)

\* urn:example:animal:ferret:nose
DocURN ==
    S(<<"u", "r", "n", ":", "e", "x", "a", "m", "p", "l", "e", ":", "a", "n",
        "i", "m", "a", "l", ":", "f", "e", "r", "r", "e", "t", ":", "n", "o",
        "s", "e">>)

\* the two URIs of the class documentation, and texts whose part before the
\* first colon starts like a scheme and goes on with other characters
DocumentedURIs ==
    {DocURL, DocURN,
     S(<<"a", "1", "_", ":", "x">>),
     S(<<"a", "b", "?", ":", "/", "/", "h", "/", "p">>),
     S(<<"a", "b", "#", ":", "/", "/", "h", "/", "p">>)}

\* the components of a URI with every component present
FullForms ==
    [S : {S(<<"s">>), S(<<"a", "1">>)},
     H : {<<>>, S(<<"h">>), S(<<"h", ".", "c">>)},
     P : {S(<<"8">>), S(<<"8", "0">>)},
     R : {<<>>, S(<<"r">>), S(<<"a", "/", "b">>)},
     Q : {<<>>, S(<<"q">>), S(<<"a", "=", "/">>)},
     F : {<<>>, S(<<"f">>), S(<<"/", "f">>)}]

\* S "://" H ":" P "/" R "?" Q "#" F
JoinFull(t) ==
    t.S \o S(<<":", "/", "/">>) \o t.H \o S(<<":">>) \o t.P \o S(<<"/">>)
        \o t.R \o S(<<"?">>) \o t.Q \o S(<<"#">>) \o t.F

FullURIs == {JoinFull(t) : t \in FullForms}

Buffers ==
    RawStrings(MaxLen) \cup ComposedURIs \cup FullURIs \cup DocumentedURIs

\* the object right after basic_uri(StringType const& u), in either build
InitURI(buffers) ==
    /\ data \in buffers
    /\ scheme_end = NPOS
    /\ authority_start = NPOS
    /\ user_info_end = NPOS
    /\ port_start = NPOS
    /\ authority_end = NPOS
    /\ query_start = NPOS
    /\ fragment_start = NPOS
    /\ alive = TRUE
    /\ hardened \in BOOLEAN
    /\ muts = 0
    /\ last = [op |-> "basic_uri", result |-> <<>>]
    /\ threads = [t \in Threads |-> NoCall]

InitCodecIdle ==
    /\ cin = <<>>
    /\ cset = {}
    /\ cout = [op |-> "none", result |-> <<>>]

\* a call that is no setter ran on the live object: r is the object after
\* the call and what the call returned
Answer(name, r) ==
    /\ alive
    /\ Becomes(r.u)
    /\ last' = [op |-> name, result |-> r.ret]
    /\ UNCHANGED <<hardened, muts, cin, cset, cout, threads>>

call_has_scheme == Answer("has_scheme", has_scheme(Self, Build))

call_scheme == Answer("scheme", scheme(Self, Build))

call_has_user_info == Answer("has_user_info", has_user_info(Self, Build))

call_user_info == Answer("user_info", user_info(Self, Build))

call_host == Answer("host", host(Self, Build))

call_has_host == Answer("has_host", has_host(Self, Build))

call_port == Answer("port", port(Self, Build))

call_has_port == Answer("has_port", has_port(Self, Build))

call_has_path == Answer("has_path", has_path(Self, Build))

call_path == Answer("path", path(Self, Build))

call_has_query == Answer("has_query", has_query(Self, Build))

call_query == Answer("query", query(Self, Build))

call_fragment == Answer("fragment", fragment(Self, Build))

call_has_fragment == Answer("has_fragment", has_fragment(Self, Build))

call_has_authority == Answer("has_authority", has_authority(Self, Build))

call_is_urn == Answer("is_urn", is_urn(Self, Build))

call_has_username == Answer("has_username", has_username(Self, Build))

\* any read accessor
ReadNext ==
    \/ call_has_scheme \/ call_scheme \/ call_has_user_info \/ call_user_info
    \/ call_host \/ call_has_host \/ call_port \/ call_has_port
    \/ call_has_path \/ call_path \/ call_has_query \/ call_query
    \/ call_fragment \/ call_has_fragment \/ call_has_authority
    \/ call_is_urn \/ call_has_username

\* a URI constructed from any of the buffers, then only read
InitRead == InitURI(Buffers) /\ InitCodecIdle

SpecRead == InitRead /\ [][ReadNext]_vars


-----------------------------------------------------------------------------
(* One object that is read and modified: the setters and the assignment,   *)
(* at most MaxMutations of them in a behaviour.                            *)

\* a setter or an assignment ran and left the object as r
Mutate(name, r) ==
    /\ alive
    /\ muts < MaxMutations
    /\ Becomes(r.u)
    /\ last' = [op |-> name, result |-> r.ret]
    /\ muts' = muts + 1
    /\ UNCHANGED <<hardened, cin, cset, cout, threads>>

SchemeArgs == {S(<<"b">>), S(<<"b", ":">>), S(<<"1">>)}

UserInfoArgs == {<<>>, S(<<"u">>)}

\* no host, a plain name, an IPv6 address, a name with a space and one with a
\* byte above 0x7F
HostArgs ==
    {<<>>, S(<<"g">>), S(<<":", ":", "1">>), S(<<"A", " ", "m">>), <<200>>}

PortArgs == {S(<<"9">>), S(<<":", "9">>), S(<<"x">>)}

PathArgs == {<<>>, S(<<"r">>), S(<<"/", "r", " ">>)}

QueryArgs == {<<>>, S(<<"k">>), S(<<"?", "k">>), S(<<"#">>)}

AssignArgs == {<<>>, S(<<"b", ":", "/", "/", "g", "/", "r">>)}

call_set_scheme ==
    \E arg \in SchemeArgs : Mutate("set_scheme", set_scheme(Self, arg, Build))

call_set_user_info ==
    \E arg \in UserInfoArgs : \E sc \in BOOLEAN :
        Mutate("set_user_info", set_user_info(Self, arg, Build, sc))

call_set_host ==
    \E arg \in HostArgs : \E sc \in BOOLEAN :
        Mutate("set_host", set_host(Self, arg, Build, sc))

call_set_port ==
    \E arg \in PortArgs : Mutate("set_port", set_port(Self, arg, Build))

call_set_path ==
    \E arg \in PathArgs : \E sc \in BOOLEAN :
        Mutate("set_path", set_path(Self, arg, Build, sc))

call_set_query ==
    \E arg \in QueryArgs : \E sc \in BOOLEAN :
        Mutate("set_query", set_query(Self, arg, Build, sc))

call_assign ==
    \E arg \in AssignArgs : Mutate("assign", Return(assign(Self, arg), "ok"))

\* the texts the modified object is constructed from
Seeds ==
    {<<>>,
     S(<<"/", "/", "h">>),
     S(<<"/", "/", "u", "@", "h">>),
     S(<<"/", "/", "h", ":", "8">>),
     S(<<"h", "?", "q">>),
     S(<<"/", "p", "#", "f">>),
     S(<<"/", "/", "h", "?", "q">>),
     S(<<"/", "/", "h", "#", "f">>),
     S(<<"/", "/", "h", "/", "p">>),
     S(<<"u", "r", "n", ":", "x">>),
     S(<<":", "x">>),
     S(<<"a", "b", "#", ":", "x">>),
     S(<<"s", ":", "/", "/", "h", "/", "p">>),
     S(<<"s", ":", "/", "/", "u", "@", "h", ":", "8", "/", "p", "?", "q", "#", "f">>)}

Init == InitURI(Seeds) /\ InitCodecIdle

Next ==
    \/ ReadNext
    \/ call_set_scheme \/ call_set_user_info \/ call_set_host
    \/ call_set_port \/ call_set_path \/ call_set_query \/ call_assign

Spec == Init /\ [][Next]_vars


-----------------------------------------------------------------------------
(* The codec on its own: a text and an allowed set are chosen, then        *)
(* encode_uri_component or decode_uri_component is called on them once.    *)

\* '%', a digit, an upper-case and a lower-case hexadecimal letter, a letter
\* that is no hexadecimal digit, a delimiter and a space
CodecAlphabet == Chars({"%", "2", "F", "a", "g", "/", " "})

\* the texts up to MaxText over the codec alphabet, and every single byte
CodecTexts == StringsOver(CodecAlphabet, MaxText) \cup {<<b>> : b \in 0..255}

CodecSets ==
    {ALPHA, USER_INFO_NOT_PCT_ENCODED, QUERY_OR_FRAGMENT_NOT_PCT_ENCODED,
     ALLOWED_CHARACTERS_IN_URI}

InitCodec ==
    /\ InitURI({<<>>})
    /\ hardened = FALSE
    /\ cin \in CodecTexts
    /\ cset \in CodecSets
    /\ cout = [op |-> "none", result |-> <<>>]

\* encode_uri_component(cin, cset) in a build with signed or unsigned char
call_encode_uri_component ==
    /\ cout.op = "none"
    /\ \E sc \in BOOLEAN :
           cout' = [op |-> "encode_uri_component",
                    result |-> encode_uri_component(cin, cset, sc),
                    signed_char |-> sc]
    /\ UNCHANGED <<uri_vars, cin, cset, threads>>

\* decode_uri_component(cin, cset)
call_decode_uri_component ==
    /\ cout.op = "none"
    /\ cout' = [op |-> "decode_uri_component",
                result |-> decode_uri_component(cin, cset)]
    /\ UNCHANGED <<uri_vars, cin, cset, threads>>

\* decode_uri_component on what encode_uri_component returned, with the same
\* allowed set: decoded_uri() of a URI holding encoded_uri()
call_decode_encoded ==
    /\ cout.op = "encode_uri_component"
    /\ cout' = [op |-> "decode_encoded",
                result |-> decode_uri_component(cout.result, cset)]
    /\ UNCHANGED <<uri_vars, cin, cset, threads>>

CodecNext ==
    \/ call_encode_uri_component
    \/ call_decode_uri_component
    \/ call_decode_encoded

SpecCodec == InitCodec /\ [][CodecNext]_vars


-----------------------------------------------------------------------------
(* The accessors built on the component getters: the path segments, the    *)
(* query map, the domain parts of the host and the port number.            *)

\* string_view::find_last_of(c, pos): the last c at or before position pos
find_last_of_upto(s, c, pos) ==
    LET I == {i \in 1..Len(s) : s[i] = c /\ i - 1 <= pos}
    IN  IF I = {} THEN NPOS ELSE SetMax(I) - 1

\* is::ipv4: four decimal numbers up to 255, separated by dots
is_ipv4(str) ==
    /\ Cardinality({i \in 1..Len(str) : str[i] = Ord(".")}) = 3
    /\ \A i \in 1..Len(str) : str[i] \in DIGIT \cup {Ord(".")}
    /\ \A i \in 1..Len(str) :
           str[i] = Ord(".") =>
               /\ i > 1 /\ i < Len(str)
               /\ str[i - 1] # Ord(".") /\ str[i + 1] # Ord(".")
    /\ \A i \in 1..Len(str) : \A j \in i..Len(str) :
           (\A k \in i..j : str[k] \in DIGIT) =>
               /\ j - i + 1 <= 3
               /\ (j - i + 1 = 3) =>
                      (str[i] - 48) * 100 + (str[i + 1] - 48) * 10
                          + (str[i + 2] - 48) <= 255

\* basic_uri::is_ip, on what host() returned
is_ip(_host) ==
    \/ is_ipv4(_host)
    \/ starts_with(_host, S(<<"[">>)) /\ ends_with(_host, Ord("]"))

\* the value an accessor of the domain parts returns when there is no host
\* name: "if (_host.empty() || is_ip()) return {};"
no_domain(h) == ~h.u.alive \/ h.ret = <<>> \/ is_ip(h.ret)

\* top_level_domain, given what host() returned
top_level_of(h) ==
    Return(h.u,
        IF no_domain(h) THEN <<>>
        ELSE sv_substr(h.ret,
                 IF find_last_of(h.ret, Ord(".")) # NPOS
                 THEN find_last_of(h.ret, Ord(".")) + 1
                 ELSE 0,
                 NPOS))

\* basic_uri::top_level_domain() const
top_level_domain(u, ub) == top_level_of(host(u, ub))

\* the start of second_level_domain taken at the dot before it
second_level_start_at_dot(_host, last_dot) ==
    IF find_last_of_upto(_host, Ord("."), Sub(last_dot, 1)) = NPOS THEN 0
    ELSE find_last_of_upto(_host, Ord("."), Sub(last_dot, 1))

\* the local start of second_level_domain, given last_dot
second_level_start(_host, last_dot) ==
    IF find_last_of_upto(_host, Ord("."), Sub(last_dot, 1)) = NPOS THEN 0
    ELSE find_last_of_upto(_host, Ord("."), Sub(last_dot, 1)) + 1

\* second_level_domain, given what host() returned
second_level_of(h) ==
    Return(h.u,
        IF no_domain(h) \/ find_last_of(h.ret, Ord(".")) = NPOS THEN <<>>
        ELSE sv_substr(h.ret,
                 second_level_start(h.ret, find_last_of(h.ret, Ord("."))),
                 Sub(find_last_of(h.ret, Ord(".")),
                     second_level_start(h.ret,
                                        find_last_of(h.ret, Ord("."))))))

\* basic_uri::second_level_domain() const
second_level_domain(u, ub) == second_level_of(host(u, ub))

\* subdomains, given what host() returned
subdomains_of(h) ==
    Return(h.u,
        IF no_domain(h) \/ find_last_of(h.ret, Ord(".")) = NPOS THEN <<>>
        ELSE IF find_last_of_upto(h.ret, Ord("."),
                     Sub(find_last_of(h.ret, Ord(".")), 1)) = NPOS
        THEN <<>>
        ELSE sv_substr(h.ret, 0,
                 find_last_of_upto(h.ret, Ord("."),
                     Sub(find_last_of(h.ret, Ord(".")), 1))))

\* basic_uri::subdomains() const
subdomains(u, ub) == subdomains_of(host(u, ub))

\* the loop of domains: the labels of _host up to the first empty one
RECURSIVE domains_loop(_)
domains_loop(_host) ==
    IF sv_substr(_host, 0, find(_host, Ord("."), 0)) = <<>> THEN <<>>
    ELSE <<sv_substr(_host, 0, find(_host, Ord("."), 0))>>
             \o IF find(_host, Ord("."), 0) = NPOS THEN <<>>
                ELSE domains_loop(
                         SubSeq(_host, find(_host, Ord("."), 0) + 2,
                                Len(_host)))

\* domains, given what host() returned
domains_of(h) ==
    Return(h.u, IF no_domain(h) THEN <<>> ELSE domains_loop(h.ret))

\* basic_uri::domains() const
domains(u, ub) == domains_of(host(u, ub))

\* the lambda of is_normalized applied to a segment
dot_segment(p) == p = S(<<".">>) \/ p = S(<<".", ".">>)

\* is_normalized, given what path_structured() returned:
\* __path.cend() != std::find_if(...)
found_dot_segment(c) ==
    Return(c.u, \E i \in 1..Len(c.ret) : dot_segment(c.ret[i]))

\* basic_uri::default_port, given what scheme() returned
default_port_of(_scheme) ==
    CASE _scheme = S(<<"h", "t", "t", "p">>) -> 80
      [] _scheme = S(<<"h", "t", "t", "p", "s">>) -> 443
      [] _scheme = S(<<"f", "t", "p">>) -> 21
      [] _scheme = S(<<"s", "s", "h">>) -> 22
      [] _scheme = S(<<"t", "e", "l", "n", "e", "t">>) -> 23
      [] _scheme = S(<<"f", "t", "p", "s">>) -> 990
      [] OTHER -> 0

\* basic_uri::default_port() const
default_port(u, ub) ==
    Return(scheme(u, ub).u, default_port_of(scheme(u, ub).ret))

\* to_uint of casts.h: the decimal value of the digits (the ports of the
\* model have at most five digits, so the unsigned int does not wrap)
RECURSIVE to_uint(_)
to_uint(str) ==
    IF str = <<>> THEN 0
    ELSE (to_uint(SubSeq(str, 1, Len(str) - 1)) * 10
              + (str[Len(str)] - 48))

\* static_cast<uint16_t>(to_uint(port())), given what port() returned
port_number(p) == Return(p.u, to_uint(p.ret) % (2 ^ 16))

\* port_uint16, given what has_port() returned
port_or_default(h, ub) ==
    IF h.u.alive /\ h.ret THEN port_number(port(h.u, ub))
    ELSE default_port(h.u, ub)

\* basic_uri::port_uint16() const
port_uint16(u, ub) == port_or_default(has_port(u, ub), ub)

\* one element of path_structured: the text after the slash at
\* last_slash_start, up to the next slash or the end
path_segment(_path, last_slash_start, slash_start) ==
    SubSeq(_path, last_slash_start + 2,
           last_slash_start + 1
               + Sub(Sub(MinOf(slash_start, Len(_path)), last_slash_start),
                     1))

\* the do-while loop of path_structured
RECURSIVE path_loop(_, _)
path_loop(_path, last_slash_start) ==
    <<path_segment(_path, last_slash_start,
                   find(_path, Ord("/"), last_slash_start + 1))>>
        \o IF find(_path, Ord("/"), last_slash_start + 1) # NPOS
           THEN path_loop(_path, find(_path, Ord("/"), last_slash_start + 1))
           ELSE <<>>

\* path_structured without the empty element for a leading slash
path_container_of_loop(p) ==
    Return(p.u, IF p.ret = <<>> THEN <<>> ELSE path_loop(p.ret, 0))

\* path_structured, given what path() returned
path_container(p) ==
    Return(p.u,
        IF p.ret = <<>> THEN <<>>
        ELSE (IF p.ret[1] = Ord("/") THEN <<(<<>>)>> ELSE <<>>)
                 \o path_loop(p.ret, 0))

\* basic_uri::path_structured() const
path_structured(u, ub) == path_container(path(u, ub))

\* string_view::find("=", pos, count): the first count characters of the
\* array "=" are searched for.  count 0 is the empty text, found at pos; for
\* count >= 2 the text starts with '=' and the array's terminating NUL, which
\* no query of the model contains
find_eq(_query, pos, count) ==
    CASE count = 0 -> IF pos <= Len(_query) THEN pos ELSE NPOS
      [] count = 1 -> find(_query, Ord("="), pos)
      [] OTHER -> NPOS

\* q_structured[key] = value, the map as a set of <<key, value>>
map_assign(q_structured, key, value) ==
    {kv \in q_structured : kv[1] # key} \cup {<<key, value>>}

\* .value_or("") of a decoded text
value_or_empty(d) == IF d.some THEN d.val ELSE <<>>

\* the body of the loop of query_structured after name was taken
query_insert(_query, q_structured, name, and_sep, eq_sep) ==
    IF name = <<>> THEN q_structured
    ELSE IF ~decode_uri_component(name, QUERY_OR_FRAGMENT_NOT_PCT_ENCODED).some
    THEN q_structured
    ELSE map_assign(q_structured,
             decode_uri_component(name,
                                  QUERY_OR_FRAGMENT_NOT_PCT_ENCODED).val,
             value_or_empty(decode_uri_component(
                 IF and_sep # NPOS
                 THEN sv_substr(_query, Add(eq_sep, 1), and_sep)
                 ELSE <<>>,
                 QUERY_OR_FRAGMENT_NOT_PCT_ENCODED)))

\* the do-while loop of query_structured from the state (last_and_sep,
\* q_structured).  substr throws for a position after the end, which ends the
\* process in a noexcept function; the loop never ends when it comes back to
\* a state it was in before (visited)
RECURSIVE query_loop(_, _, _, _)
query_loop(_query, last_and_sep, q_structured, visited) ==
    LET and_sep == find(_query, Ord("&"), last_and_sep)
        eq_sep == find_eq(_query, last_and_sep, Sub(and_sep, last_and_sep))
        next == query_insert(_query, q_structured,
                    sv_substr(_query, last_and_sep + 1,
                              MinOf(eq_sep, and_sep)),
                    and_sep, eq_sep)
    IN  IF last_and_sep + 1 > Len(_query)
        THEN [outcome |-> "terminate", pairs |-> {}]
        ELSE IF and_sep # NPOS /\ Add(eq_sep, 1) > Len(_query)
                    /\ sv_substr(_query, last_and_sep + 1,
                                 MinOf(eq_sep, and_sep)) # <<>>
        THEN [outcome |-> "terminate", pairs |-> {}]
        ELSE IF and_sep = NPOS
        THEN [outcome |-> "return", pairs |-> next]
        ELSE IF <<and_sep, next>> \in visited
        THEN [outcome |-> "hang", pairs |-> {}]
        ELSE query_loop(_query, and_sep, next,
                        visited \cup {<<and_sep, next>>})

\* query_structured, given what query() returned
query_map(q) ==
    IF ~q.u.alive THEN Return(q.u, [outcome |-> "terminate", pairs |-> {}])
    ELSE Return([q.u EXCEPT
                     !.alive = query_loop(q.ret, 0, {}, {}).outcome
                                   = "return"],
                query_loop(q.ret, 0, {}, {}))

\* basic_uri::query_structured() const
query_structured(u, ub) == query_map(query(u, ub))

\* basic_uri::is_normalized() const
is_normalized(u, ub) == found_dot_segment(path_structured(u, ub))

\* basic_uri::normalize_path(): "// TODO" and return *this
normalize_path(u) == Return(u, "done")

\* resolve ends the process (an exception in a noexcept function)
resolve_terminates(u, relative_uri) ==
    Return([u EXCEPT !.alive = FALSE],
           [outcome |-> "terminate", target |-> <<>>,
            reference |-> relative_uri])

\* the else branch of resolve, given what scheme() of the base and
\* relative_uri.fragment() returned: target.scheme(scheme()), then
\* target.fragment(relative_uri.fragment()), a setter the class does not
\* have; the statements after it read relative_uri._query and
\* relative_uri._path, which are no members either
resolve_relative(s, f, relative_uri, ub) ==
    IF ~s.u.alive
           \/ set_scheme(basic_uri(<<>>), s.ret, ub).ret = "invalid_argument"
           \/ ~f.u.alive
    THEN resolve_terminates(s.u, relative_uri)
    ELSE Return(s.u, [outcome |-> "no_such_member", target |-> <<>>,
                      reference |-> relative_uri])

\* resolve, given what relative_uri.has_scheme() returned
resolve_from(u, h, relative_uri, ub) ==
    IF ~h.u.alive THEN resolve_terminates(u, relative_uri)
    ELSE IF h.ret
    THEN Return(u, [outcome |-> "return",
                    target |-> normalize_path(h.u).u.data,
                    reference |-> relative_uri])
    ELSE resolve_relative(scheme(u, ub), fragment(h.u, ub), relative_uri, ub)

\* basic_uri::resolve(const basic_uri& relative_uri) const
resolve(u, relative_uri, ub) ==
    resolve_from(u, has_scheme(basic_uri(relative_uri), ub), relative_uri, ub)


-----------------------------------------------------------------------------
(* One object on which the accessors above are called as well.             *)

MaxPath == 4

MaxHost == 5

MaxQuery == 3

\* http://a/b/c/d;p?q
BaseURI ==
    S(<<"h", "t", "t", "p", ":", "/", "/", "a", "/", "b", "/", "c", "/", "d",
        ";", "p", "?", "q">>)

\* paths with dot segments and with empty segments
PathURIs == StringsOver(Chars({"/", "a", "."}), MaxPath)

\* "//" and a host of labels and dots
HostURIs == {two_slashes \o h : h \in StringsOver(Chars({"a", "."}), MaxHost)}

\* "?" and a query of names, '=' and '&'
QueryURIs ==
    {S(<<"?">>) \o q : q \in StringsOver(Chars({"a", "=", "&"}), MaxQuery)}

\* a scheme or none, a host and a port or none, with and without a path
PortURIs ==
    {S(s) \o two_slashes \o S(<<"h">>) \o S(p) \o S(r) :
        s \in {<<>>, <<"s", ":">>, <<"h", "t", "t", "p", ":">>,
               <<"h", "t", "t", "p", "s", ":">>, <<"f", "t", "p", ":">>,
               <<"s", "s", "h", ":">>, <<"t", "e", "l", "n", "e", "t", ":">>,
               <<"f", "t", "p", "s", ":">>},
        p \in {<<>>, <<":">>, <<":", "8", "0">>,
               <<":", "6", "5", "5", "3", "5">>,
               <<":", "6", "5", "5", "3", "6">>},
        r \in {<<>>, <<"/">>}}

\* the hosts and the queries of the documentation
NamedURIs ==
    {BaseURI, DocURL, DocURN,
     S(<<"/", "/", "w", "w", "w", ".", "e", "x", "a", "m", "p", "l", "e", ".",
         "c", "o", "m">>),
     S(<<"s", ":", "/", "/", "w", "w", "w", ".", "e", "x", "a", "m", "p", "l",
         "e", ".", "c", "o", ".", "u", "k", "/", "p">>),
     S(<<"/", "/", "u", "@", "a", ".", "b", ".", "c", ":", "8", "/">>),
     S(<<"/", "/", "1", ".", "2", ".", "3", ".", "4", "/">>),
     S(<<"/", "/", "1", ".", "2", ".", "3", "/">>),
     S(<<"/", "/", "[", ":", ":", "1", "]", "/">>),
     S(<<"?", "n", "a", "m", "e", "=", "f", "e", "r", "r", "e", "t">>),
     S(<<"?", "a", "=", "1", "&", "b", "=", "2", "&", "a", "=", "3">>),
     S(<<"s", ":", "/", "/", "h", "/", "a", "/", ".", "/", "b", "/", ".", ".",
         "/", "c", "?", "q", "#", "f">>)}

DerivedBuffers ==
    PathURIs \cup HostURIs \cup QueryURIs \cup PortURIs \cup NamedURIs

\* the relative references given to resolve
References ==
    {S(<<"g">>), S(<<".", ".", "/", "g">>), S(<<"?", "y">>),
     S(<<"g", ":", "h">>), S(<<"g", "#", "s">>)}

call_top_level_domain ==
    Answer("top_level_domain", top_level_domain(Self, Build))

call_second_level_domain ==
    Answer("second_level_domain", second_level_domain(Self, Build))

call_subdomains == Answer("subdomains", subdomains(Self, Build))

call_port_uint16 == Answer("port_uint16", port_uint16(Self, Build))

call_path_structured == Answer("path_structured", path_structured(Self, Build))

call_query_structured ==
    Answer("query_structured", query_structured(Self, Build))

call_domains == Answer("domains", domains(Self, Build))

call_is_normalized == Answer("is_normalized", is_normalized(Self, Build))

call_normalize_path == Answer("normalize_path", normalize_path(Self))

call_resolve ==
    \E relative_uri \in References :
        Answer("resolve", resolve(Self, relative_uri, Build))

DerivedNext ==
    \/ ReadNext
    \/ call_top_level_domain \/ call_second_level_domain \/ call_subdomains
    \/ call_port_uint16 \/ call_path_structured \/ call_query_structured
    \/ call_normalize_path \/ call_resolve
    \/ call_domains \/ call_is_normalized

InitDerived == InitURI(DerivedBuffers) /\ InitCodecIdle

SpecDerived == InitDerived /\ [][DerivedNext]_vars


-----------------------------------------------------------------------------
(* Two threads read one object.  Each calls scheme() or user_info() once;  *)
(* the calls advance one statement at a time on the shared buffer and the  *)
(* shared mutable offsets, which nothing synchronises.  The offsets are    *)
(* read and written without atomics, so the two stores of parse_scheme may *)
(* reach memory in either order.                                           *)

ThreadOps == {"scheme", "user_info"}

ThreadBuffers ==
    {S(<<"s", ":", "/", "/", "u", "@", "h", "/", "p">>),
     S(<<"/", "/", "u", "@", "h">>),
     S(<<"/", "/", "h">>),
     S(<<"u", "r", "n", ":", "x">>),
     S(<<":", "x">>),
     S(<<"h">>)}

\* thread t makes a step that leaves the object as r and its call as c
Step(t, r, c) ==
    /\ alive
    /\ Becomes(r)
    /\ threads' = [threads EXCEPT ![t] = c]
    /\ UNCHANGED <<hardened, muts, last, cin, cset, cout>>

\* the two assignments of parse_scheme in the order of the source, r being
\* the object parse_scheme leaves: scheme_end first where a scheme was found,
\* authority_start first in the "//" branch and in the last statement
scheme_stores(r) ==
    IF r.scheme_end # Len(r.data)
    THEN <<[field |-> "scheme_end", value |-> r.scheme_end],
           [field |-> "authority_start", value |-> r.authority_start]>>
    ELSE <<[field |-> "authority_start", value |-> r.authority_start],
           [field |-> "scheme_end", value |-> r.scheme_end]>>

\* the orders in which a build may emit two plain stores
StoreOrders(w) == {w, <<w[2], w[1]>>}

\* one assignment to an offset
stored(u, w) ==
    IF w.field = "scheme_end" THEN [u EXCEPT !.scheme_end = w.value]
    ELSE [u EXCEPT !.authority_start = w.value]

\* parse_scheme is over for the call c
after_parse_scheme(c) ==
    [c EXCEPT !.stores = <<>>,
              !.pc = IF c.op = "scheme" THEN "return" ELSE "has_authority"]

\* thread t calls scheme() or user_info()
thread_call(t) ==
    /\ threads[t].pc = "idle"
    /\ \E a \in ThreadOps :
           Step(t, Self,
                [NoCall EXCEPT !.op = a,
                               !.pc = IF a = "scheme" THEN "parse_scheme"
                                      ELSE "parse_user_info"])

\* parse_user_info: "if (user_info_end != npos) return;"
enter_parse_user_info(t) ==
    /\ threads[t].pc = "parse_user_info"
    /\ Step(t, Self,
            [threads[t] EXCEPT !.pc = IF user_info_end # NPOS THEN "return"
                                      ELSE "parse_scheme"])

\* parse_scheme: "if (scheme_end != npos) return;", then the search of the
\* buffer, which no call changes
enter_parse_scheme(t) ==
    /\ threads[t].pc = "parse_scheme"
    /\ IF scheme_end # NPOS
       THEN Step(t, Self, after_parse_scheme(threads[t]))
       ELSE IF ~parse_scheme(Self, Build).alive
       THEN Step(t, parse_scheme(Self, Build), threads[t])
       ELSE \E w \in StoreOrders(scheme_stores(parse_scheme(Self, Build))) :
                Step(t, Self, [threads[t] EXCEPT !.pc = "store", !.stores = w])

\* parse_scheme: the next assignment to scheme_end or authority_start
parse_scheme_store(t) ==
    /\ threads[t].pc = "store"
    /\ Step(t, stored(Self, Head(threads[t].stores)),
            IF Tail(threads[t].stores) = <<>>
            THEN after_parse_scheme(threads[t])
            ELSE [threads[t] EXCEPT !.stores = Tail(threads[t].stores)])

\* parse_user_info: "if (authority_start == data.size())"
check_authority_start(t) ==
    /\ threads[t].pc = "has_authority"
    /\ IF authority_start = Len(data)
       THEN Step(t, [Self EXCEPT !.user_info_end = Len(data)],
                 [threads[t] EXCEPT !.pc = "return"])
       ELSE Step(t, Self, [threads[t] EXCEPT !.pc = "parse_path"])

\* parse_user_info: "parse_path();"
call_parse_path(t) ==
    /\ threads[t].pc = "parse_path"
    /\ Step(t, parse_path(Self, Build), [threads[t] EXCEPT !.pc = "find"])

\* parse_user_info: "user_info_end = ... .find_first_of('@');"
store_find_first_of(t) ==
    /\ threads[t].pc = "find"
    /\ Step(t, find_at(Self), [threads[t] EXCEPT !.pc = "adjust"])

\* parse_user_info: the if / else on user_info_end
store_user_info_end(t) ==
    /\ threads[t].pc = "adjust"
    /\ Step(t, adjust_user_info_end(Self), [threads[t] EXCEPT !.pc = "return"])

\* the call of thread t returns r.ret
returned(t, r) ==
    Step(t, r.u, [threads[t] EXCEPT !.pc = "done", !.result = r.ret])

\* the return statement of scheme() or of user_info()
thread_return(t) ==
    /\ threads[t].pc = "return"
    /\ IF threads[t].op = "scheme" THEN returned(t, scheme_slice(Self))
       ELSE returned(t, user_info_slice(Self))

ThreadsNext ==
    \E t \in Threads :
        \/ thread_call(t)
        \/ enter_parse_user_info(t)
        \/ enter_parse_scheme(t)
        \/ parse_scheme_store(t)
        \/ check_authority_start(t)
        \/ call_parse_path(t)
        \/ store_find_first_of(t)
        \/ store_user_info_end(t)
        \/ thread_return(t)

InitThreads == InitURI(ThreadBuffers) /\ InitCodecIdle

SpecThreads == InitThreads /\ [][ThreadsNext]_vars


-----------------------------------------------------------------------------
(* Claims about the offsets and the read accessors (SpecRead).             *)

Offsets ==
    <<scheme_end, authority_start, user_info_end, port_start, authority_end,
      query_start, fragment_start>>

AllResolved == alive /\ \A i \in 1..7 : Offsets[i] # NPOS

\* C1 as stated: once all seven offsets are resolved they are non-decreasing
\* in the order scheme_end, authority_start, user_info_end, port_start,
\* authority_end, query_start, fragment_start, and at most the buffer length.
C1_OffsetsMonotone ==
    AllResolved =>
        /\ \A i \in 1..6 : Offsets[i] <= Offsets[i + 1]
        /\ fragment_start <= Len(data)

\* C1 as amended: once all seven offsets are resolved, each is at most the
\* buffer length (the value an absent component gets); among scheme_end,
\* authority_start, user_info_end, port_start and authority_end the ones that
\* differ from the buffer length are non-decreasing in that order, and a
\* query_start that differs from the buffer length is at most fragment_start.
C1_PresentOffsetsMonotone ==
    AllResolved =>
        /\ \A i \in 1..7 : Offsets[i] <= Len(data)
        /\ \A i \in 1..5 : \A j \in i..5 :
               (Offsets[i] # Len(data) /\ Offsets[j] # Len(data))
                   => Offsets[i] <= Offsets[j]
        /\ query_start # Len(data) => query_start <= fragment_start

\* C1's case: everything is resolved, a port is present and the user-info is
\* absent, so that user_info_end (the buffer length) exceeds port_start.
C1_Witness ==
    /\ AllResolved
    /\ data = DocURL
    /\ port_start < Len(data)
    /\ user_info_end = Len(data)

\* C3: calling an accessor a second time right after the first returns the
\* same result and changes none of the seven offsets.
C3_IdempotentAccessors ==
    alive =>
        \A a \in Accessors :
            LET first  == Call(a, Self, Build)
                second == Call(a, first.u, Build)
            IN  first.u.alive =>
                    /\ second.ret = first.ret
                    /\ second.u = first.u

\* C3's case: port() has just been called on a URI with a port, so the call
\* that follows is answered from the cached offsets.
C3_Witness ==
    /\ alive
    /\ last.op = "port"
    /\ port_start \notin {NPOS, Len(data)}
    /\ authority_end # NPOS

\* C4: every accessor returns on the object, whatever was called on it
\* before, what it returns on a URI just constructed from the same text.
C4_OrderIndependent ==
    alive =>
        \A a \in Accessors :
            LET here  == Call(a, Self, Build)
                fresh == Call(a, basic_uri(data), Build)
            IN  /\ here.ret = fresh.ret
                /\ here.u.alive = fresh.u.alive

\* the parts a buffer of FullURIs was joined from
FormOf == [d \in FullURIs |-> CHOOSE t \in FullForms : JoinFull(t) = d]

\* C5: on S "://" H ":" P "/" R "?" Q "#" F the accessors return S, H, P,
\* "/" R, Q and F; on the documented URL they return foo, example.com, 8042,
\* /over/there, name=ferret and nose.
C5_ComponentExtraction ==
    /\ data \in FullURIs =>
           LET t == FormOf[data]
           IN  /\ scheme(Self, Build).ret = t.S
               /\ host(Self, Build).ret = t.H
               /\ port(Self, Build).ret = t.P
               /\ path(Self, Build).ret = S(<<"/">>) \o t.R
               /\ query(Self, Build).ret = t.Q
               /\ fragment(Self, Build).ret = t.F
    /\ data = DocURL =>
           /\ scheme(Self, Build).ret = S(<<"f", "o", "o">>)
           /\ host(Self, Build).ret =
                  S(<<"e", "x", "a", "m", "p", "l", "e", ".", "c", "o", "m">>)
           /\ port(Self, Build).ret = S(<<"8", "0", "4", "2">>)
           /\ path(Self, Build).ret =
                  S(<<"/", "o", "v", "e", "r", "/", "t", "h", "e", "r", "e">>)
           /\ query(Self, Build).ret =
                  S(<<"n", "a", "m", "e", "=", "f", "e", "r", "r", "e", "t">>)
           /\ fragment(Self, Build).ret = S(<<"n", "o", "s", "e">>)

\* C5's case: host() was called on the documented URL and returned
\* example.com.
C5_Witness ==
    /\ data = DocURL
    /\ last.op = "host"
    /\ last.result = S(<<"e", "x", "a", "m", "p", "l", "e", ".", "c", "o", "m">>)

\* the text is one ALPHA followed only by scheme-tail characters
SchemeText(str) ==
    /\ Len(str) >= 1
    /\ str[1] \in ALPHA
    /\ \A i \in 2..Len(str) : str[i] \in SCHEME_NOT_FIRST

\* C6: for a buffer not starting with "//", scheme_end is the index of the
\* first ':' exactly when the text before it is one ALPHA followed only by
\* scheme-tail characters; otherwise scheme_end and authority_start are both
\* the buffer length.
C6_SchemeRecognition ==
    (alive /\ scheme_end # NPOS /\ ~starts_with(data, S(<<"/", "/">>))) =>
        LET colon == find(data, Ord(":"), 0)
        IN  IF colon # NPOS /\ SchemeText(sv_substr(data, 0, colon))
            THEN scheme_end = colon
            ELSE scheme_end = Len(data) /\ authority_start = Len(data)

\* C7: has_port() is true exactly when the last ':' between the user-info end
\* (or the authority start) and the authority end is followed only by digits,
\* and then port() returns the whole text between that ':' and the authority
\* end.
C7_PortDerivation ==
    (alive /\ port_start # NPOS /\ authority_start # Len(data)) =>
        LET from  == IF user_info_end # Len(data) THEN user_info_end
                     ELSE authority_start
            colon == find_last_of(
                         sv_substr(data, from, Sub(authority_end, from)),
                         Ord(":"))
            after == sv_substr(data, from + colon + 1,
                               authority_end - (from + colon + 1))
        IN  /\ has_port(Self, Build).ret
                <=> (colon # NPOS /\ \A i \in 1..Len(after) : after[i] \in DIGIT)
            /\ has_port(Self, Build).ret => port(Self, Build).ret = after

\* the component the accessor named op returns is absent
Absent(op) ==
    \/ op = "scheme" /\ scheme_end = Len(data)
    \/ op = "user_info" /\ user_info_end = Len(data)
    \/ op = "host" /\ authority_start = Len(data)
    \/ op = "port" /\ port_start = Len(data)
    \/ op = "path" /\ authority_end = Len(data)
    \/ op = "query" /\ query_start = Len(data)
    \/ op = "fragment" /\ fragment_start = Len(data)

\* C8: whatever the buffer holds, no read accessor aborts or reaches outside
\* the buffer, and an accessor of an absent component returns the empty text.
C8_ParsingNeverFails ==
    /\ alive
    /\ Absent(last.op) => last.result = <<>>

\* the buffer is a valid scheme, a ':' and then something other than "//"
UrnLike(d) ==
    /\ find(d, Ord(":"), 0) # NPOS
    /\ SchemeText(sv_substr(d, 0, find(d, Ord(":"), 0)))
    /\ ~starts_with(SubSeq(d, find(d, Ord(":"), 0) + 2, Len(d)), two_slashes)

\* C18: for a valid scheme followed by ':' but not by "//", has_authority(),
\* has_host(), has_user_info() and has_port() are false and is_urn() is true
\* exactly when scheme() is "urn"; on urn:example:animal:ferret:nose the
\* scheme is "urn" and is_urn() is true.
C18_UrnLike ==
    (alive /\ UrnLike(data)) =>
        /\ ~has_authority(Self, Build).ret
        /\ ~has_host(Self, Build).ret
        /\ ~has_user_info(Self, Build).ret
        /\ ~has_port(Self, Build).ret
        /\ is_urn(Self, Build).ret
               = (scheme(Self, Build).ret = S(<<"u", "r", "n">>))
        /\ data = DocURN =>
               /\ scheme(Self, Build).ret = S(<<"u", "r", "n">>)
               /\ is_urn(Self, Build).ret
        /\ last.op \in {"has_authority", "has_host", "has_user_info",
                        "has_port"} => last.result = FALSE
        /\ last.op = "is_urn" =>
               last.result = (scheme(Self, Build).ret = S(<<"u", "r", "n">>))

\* is_urn() was asked of urn:example:animal:ferret:nose
C18_Witness ==
    /\ data = DocURN
    /\ last = [op |-> "is_urn", result |-> TRUE]


\* the end of the authority that starts at position from: the first '/', '?'
\* or '#' at or after it, or the end of the text
AuthorityEndOf(d, from) ==
    IF \E i \in (from + 1)..Len(d) : d[i] \in Chars({"/", "?", "#"})
    THEN SetMin({i \in (from + 1)..Len(d) :
                     d[i] \in Chars({"/", "?", "#"})}) - 1
    ELSE Len(d)

\* the host text of the parsed object p: the text after the '@' of the
\* user-info, or from the authority start, up to the ':' of the port or the
\* end of the authority
HostTextOf(p) ==
    SubSeq(p.data,
           (IF p.user_info_end # Len(p.data)
            THEN p.user_info_end + 1 ELSE p.authority_start) + 1,
           IF p.port_start # Len(p.data) THEN p.port_start
           ELSE AuthorityEndOf(p.data, p.authority_start))

\* the host text of a URI just constructed from the text d
HostText(d) == HostTextOf(parse_host(basic_uri(d), Build))

\* h is the host text of p and holds no delimiter
HostInAuthority(p, h) ==
    /\ \A i \in 1..Len(h) : h[i] \notin Chars({"@", "/", "?", "#"})
    /\ h = HostTextOf(p)

\* C28: for a buffer with an authority, host() is the text after the '@' of
\* the user-info (when there is one) and before the ':' of the port or the
\* end of the authority; it never contains '@', '/', '?' or '#', also when a
\* query or a fragment follows the authority directly.
C28_HostSlice ==
    (/\ alive
     /\ parse_host(Self, Build).alive
     /\ parse_host(Self, Build).authority_start # Len(data)) =>
        HostInAuthority(parse_host(Self, Build), host(Self, Build).ret)


-----------------------------------------------------------------------------
(* Claims about the setters and the assignment (Spec).                     *)

\* every accessor returns what it returns on a URI just constructed from the
\* text the buffer holds now
AnswersAsFresh ==
    \A a \in Accessors :
        Call(a, Self, Build).ret = Call(a, basic_uri(data), Build).ret

\* C2: a setter call or an assignment that changes the buffer leaves all
\* seven offsets unknown, and wherever a call is made after setters and
\* accessors, every accessor returns what it returns on a URI just
\* constructed from the current buffer.
C2_MutationInvalidation ==
    [][/\ data' # data => \A i \in 1..7 : Offsets'[i] = NPOS
       /\ (muts > 0 /\ alive) => AnswersAsFresh]_vars

-----------------------------------------------------------------------------
(* Claims about the codec (SpecCodec).                                     *)

\* every '%' of str that starts an escape is followed by two hexadecimal
\* digits, and every other byte is in the allowed set
RECURSIVE WellFormed(_, _)
WellFormed(str, allowed) ==
    IF str = <<>> THEN TRUE
    ELSE IF Head(str) = Ord("%")
    THEN /\ Len(str) >= 3
         /\ str[2] \in HexDigits
         /\ str[3] \in HexDigits
         /\ WellFormed(SubSeq(str, 4, Len(str)), allowed)
    ELSE Head(str) \in allowed /\ WellFormed(Tail(str), allowed)

\* C9: decode_uri_component returns none for every input with a '%' that is
\* not followed by two hexadecimal digits, also where the input ends before
\* them, and for every input with a literal byte outside the allowed set.
C9_DecodeFailure ==
    (cout.op = "decode_uri_component" /\ ~WellFormed(cin, cset))
        => ~cout.result.some

\* the upper-case hexadecimal digit of a value 0..15
UpperHex(v) == IF v < 10 THEN Ord("0") + v ELSE Ord("A") + (v - 10)

\* str with every byte outside the allowed set replaced by '%' and the two
\* upper-case hexadecimal digits of its value
RECURSIVE PercentEncoded(_, _)
PercentEncoded(str, allowed) ==
    IF str = <<>> THEN <<>>
    ELSE (IF Head(str) \in allowed THEN <<Head(str)>>
          ELSE <<Ord("%"), UpperHex(Head(str) \div 16),
                 UpperHex(Head(str) % 16)>>)
         \o PercentEncoded(Tail(str), allowed)

\* C10: encode_uri_component copies a byte of the allowed set and replaces
\* every other byte b, 0..255, by '%', hex(b div 16), hex(b mod 16) in upper
\* case, in builds with signed and with unsigned char.
C10_EncodeUppercaseHex ==
    cout.op = "encode_uri_component" => cout.result = PercentEncoded(cin, cset)

\* C11: a text built only from characters of ALLOWED_CHARACTERS_IN_URI, encoded
\* and then decoded with that set, comes back unchanged, and the decode does
\* not fail.
C11_RoundTrip ==
    (/\ cout.op = "decode_encoded"
     /\ cset = ALLOWED_CHARACTERS_IN_URI
     /\ \A i \in 1..Len(cin) : cin[i] \in ALLOWED_CHARACTERS_IN_URI)
        => cout.result = [some |-> TRUE, val |-> cin]

\* C11's case: "a/2" was encoded and decoded with ALLOWED_CHARACTERS_IN_URI.
C11_Witness ==
    /\ cout.op = "decode_encoded"
    /\ cset = ALLOWED_CHARACTERS_IN_URI
    /\ cin = S(<<"a", "/", "2">>)

-----------------------------------------------------------------------------
(* Further claims about the setters (Spec).                                *)

\* the call was reported as failed and changed neither the buffer nor an
\* offset
Rejected ==
    /\ alive'
    /\ last'.result = "invalid_argument"
    /\ data' = data
    /\ Offsets' = Offsets

\* C12: a scheme setter call with text that is not a letter followed by
\* scheme-tail characters, and a port setter call with text that is not all
\* digits, is reported to the caller as failed, does not end the process,
\* and leaves the buffer and the seven offsets as they were.
C12_SetterRejection ==
    [][/\ \A arg \in SchemeArgs :
              (/\ ~is_scheme(without_colon(arg))
               /\ Mutate("set_scheme", set_scheme(Self, arg, Build)))
                  => Rejected
       /\ \A arg \in PortArgs :
              (/\ ~is_digit(without_leading_colon(arg))
               /\ Mutate("set_port", set_port(Self, arg, Build)))
                  => Rejected]_vars

\* the buffer has neither a scheme nor an authority
NoSchemeNoAuthority ==
    /\ ~starts_with(data, two_slashes)
    /\ ~(/\ find(data, Ord(":"), 0) # NPOS
         /\ SchemeText(sv_substr(data, 0, find(data, Ord(":"), 0))))

\* C13: host(h) with non-empty h on a URI with neither scheme nor authority
\* turns the buffer B into "//" E B, E being h with every byte outside the
\* reg-name set replaced by '%' and its two upper-case hexadecimal digits.
C13_HostInsertion ==
    [][\A h \in HostArgs \ {<<>>} : \A sc \in BOOLEAN :
           (/\ NoSchemeNoAuthority
            /\ Mutate("set_host", set_host(Self, h, Build, sc)))
               => data' = two_slashes
                              \o PercentEncoded(h, REG_NAME_NOT_PCT_ENCODED)
                              \o data]_vars


\* what accessor a returns on a URI just constructed from the text d, and
\* whether the call returns at all
Fresh(a, d) ==
    [returns |-> Call(a, basic_uri(d), Build).u.alive,
     value |-> Call(a, basic_uri(d), Build).ret]

\* the accessors of the set as return on the new buffer what they returned
\* on the old one
Kept(as) == \A a \in as : Fresh(a, data') = Fresh(a, data)

\* C22: after path(p), scheme(), user_info(), host(), port(), query() and
\* fragment() return what they returned before the call, also a fragment
\* without a query and a query without a path, and path() returns the
\* encoded p with a leading '/'.
C22_PathSetterFrame ==
    [][\A p \in PathArgs : \A sc \in BOOLEAN :
           Mutate("set_path", set_path(Self, p, Build, sc)) =>
               /\ alive'
               /\ Kept({"scheme", "user_info", "host", "port", "query",
                        "fragment"})
               /\ Fresh("path", data').value
                      = (IF starts_with(p, S(<<"/">>)) THEN <<>>
                         ELSE S(<<"/">>))
                            \o PercentEncoded(p, PCHAR_NOT_PCT_ENCODED
                                                     \cup Chars({"/"}))]_vars


\* the number of characters c in the text s
CountOf(s, c) == Cardinality({i \in 1..Len(s) : s[i] = c})

\* C23: after query(q) with a valid non-empty q, query() returns q
\* percent-encoded with the query/fragment set, after exactly one '?', and
\* scheme(), host(), port(), path() and fragment() are unchanged, whether the
\* URI had a query (which is replaced) or none, with or without a fragment.
C23_QuerySetter ==
    [][\A q \in QueryArgs : \A sc \in BOOLEAN :
           (/\ q # <<>>
            /\ is_query(q)
            /\ ~starts_with(q, S(<<"?">>))
            /\ Mutate("set_query", set_query(Self, q, Build, sc))) =>
               /\ alive'
               /\ Fresh("query", data').value
                      = PercentEncoded(q, QUERY_OR_FRAGMENT_NOT_PCT_ENCODED)
               /\ CountOf(data', Ord("?")) = 1
               /\ Kept({"scheme", "host", "port", "path", "fragment"})]_vars


\* C24: after user_info(u) with a non-empty u on a URI with an authority,
\* user_info() returns u percent-encoded with the user-info set, the buffer
\* has exactly one '@', and scheme(), the host text, port(), path(), query()
\* and fragment() are unchanged, whether user-info was present or absent.
C24_UserInfoSetter ==
    [][\A info \in UserInfoArgs : \A sc \in BOOLEAN :
           (/\ info # <<>>
            /\ Fresh("has_authority", data).value
            /\ Mutate("set_user_info", set_user_info(Self, info, Build, sc)))
               =>
               /\ alive'
               /\ Fresh("user_info", data').value
                      = PercentEncoded(info, USER_INFO_NOT_PCT_ENCODED)
               /\ CountOf(data', Ord("@")) = 1
               /\ Kept({"scheme", "port", "path", "query", "fragment"})
               /\ HostText(data') = HostText(data)]_vars


\* C25: after port(p) with a non-empty digit string p on a URI with a host,
\* port() returns p, and scheme(), user_info(), the host text, path(),
\* query() and fragment() are unchanged, whether a port was present (only
\* its digits are replaced) or absent (':' and p are put at the authority
\* end).
C25_PortSetter ==
    [][\A p \in PortArgs :
           (/\ p # <<>>
            /\ is_digit(p)
            /\ Fresh("has_host", data).value
            /\ Mutate("set_port", set_port(Self, p, Build))) =>
               /\ alive'
               /\ Fresh("port", data').value = p
               /\ Kept({"scheme", "user_info", "path", "query", "fragment"})
               /\ HostText(data') = HostText(data)]_vars


\* C26: after host(h) with a non-empty h, host() returns h percent-encoded
\* with the reg-name set and scheme(), user_info(), port(), path(), query()
\* and fragment() are unchanged: an old host is replaced, with or without a
\* path after it, and on a URI with a scheme and no authority "//" and the
\* host are put after the scheme's ':'.
C26_HostSetter ==
    [][\A h \in HostArgs : \A sc \in BOOLEAN :
           (/\ h # <<>>
            /\ Mutate("set_host", set_host(Self, h, Build, sc))) =>
               /\ alive'
               /\ Fresh("host", data').value
                      = PercentEncoded(h, REG_NAME_NOT_PCT_ENCODED)
               /\ Kept({"scheme", "user_info", "port", "path", "query",
                        "fragment"})]_vars


\* C27: after scheme(s) with a valid non-empty s, a trailing ':' of s left
\* aside, scheme() returns s and the host, the path, the query and the
\* fragment are unchanged, whether a scheme was present, the buffer started
\* with "//" or there was neither scheme nor authority.
C27_SchemeSetter ==
    [][\A s \in SchemeArgs :
           (/\ without_colon(s) # <<>>
            /\ is_scheme(without_colon(s))
            /\ Mutate("set_scheme", set_scheme(Self, s, Build))) =>
               /\ alive'
               /\ last'.result = "ok"
               /\ Fresh("scheme", data').value = without_colon(s)
               /\ Kept({"host", "path", "query", "fragment"})]_vars


-----------------------------------------------------------------------------
(* Claims about the accessors built on the getters (SpecDerived).          *)

\* the text s cut at every character c
RECURSIVE SplitOn(_, _)
SplitOn(s, c) ==
    IF find(s, c, 0) = NPOS THEN <<s>>
    ELSE <<SubSeq(s, 1, find(s, c, 0))>>
             \o SplitOn(SubSeq(s, find(s, c, 0) + 2, Len(s)), c)

\* a key or a value decoded with the query/fragment set
QueryDecoded(t) ==
    value_or_empty(decode_uri_component(t, QUERY_OR_FRAGMENT_NOT_PCT_ENCODED))

\* the key of a pair: what is before the first '=', or all of it
PairKey(p) ==
    QueryDecoded(IF find(p, Ord("="), 0) = NPOS THEN p
                 ELSE SubSeq(p, 1, find(p, Ord("="), 0)))

\* the value of a pair: what is after the first '=', or nothing
PairValue(p) ==
    QueryDecoded(IF find(p, Ord("="), 0) = NPOS THEN <<>>
                 ELSE SubSeq(p, find(p, Ord("="), 0) + 2, Len(p)))

\* the map of a sequence of pairs: empty keys dropped, the last occurrence
\* of a key kept
RECURSIVE QueryMapOf(_)
QueryMapOf(ps) ==
    IF ps = <<>> THEN {}
    ELSE IF PairKey(ps[Len(ps)]) = <<>>
    THEN QueryMapOf(SubSeq(ps, 1, Len(ps) - 1))
    ELSE {kv \in QueryMapOf(SubSeq(ps, 1, Len(ps) - 1)) :
              kv[1] # PairKey(ps[Len(ps)])}
             \cup {<<PairKey(ps[Len(ps)]), PairValue(ps[Len(ps)])>>}

\* the query of the buffer, as a fresh object returns it
QueryOf(d) == query(basic_uri(d), Build).ret

\* C14: query_structured() returns the map obtained by cutting query() at
\* '&', each pair at its first '=', decoding key and value, dropping empty
\* keys and keeping the last occurrence of a key.
C14_QueryMap ==
    last.op = "query_structured" =>
        last.result = [outcome |-> "return",
                       pairs |-> QueryMapOf(SplitOn(QueryOf(data), Ord("&")))]

\* the target RFC 3986, section 5.4, gives for a reference resolved against
\* http://a/b/c/d;p?q
RFCTarget(r) ==
    CASE r = S(<<"g">>) ->
             S(<<"h", "t", "t", "p", ":", "/", "/", "a", "/", "b", "/", "c",
                 "/", "g">>)
      [] r = S(<<".", ".", "/", "g">>) ->
             S(<<"h", "t", "t", "p", ":", "/", "/", "a", "/", "b", "/", "g">>)
      [] r = S(<<"?", "y">>) ->
             S(<<"h", "t", "t", "p", ":", "/", "/", "a", "/", "b", "/", "c",
                 "/", "d", ";", "p", "?", "y">>)
      [] r = S(<<"g", ":", "h">>) -> S(<<"g", ":", "h">>)
      [] r = S(<<"g", "#", "s">>) ->
             S(<<"h", "t", "t", "p", ":", "/", "/", "a", "/", "b", "/", "c",
                 "/", "g", "#", "s">>)

\* C15: resolve(r) on the base http://a/b/c/d;p?q returns the target of the
\* RFC 3986 algorithm: http://a/b/c/g for "g", http://a/b/g for "../g",
\* http://a/b/c/d;p?y for "?y".
C15_Resolution ==
    (last.op = "resolve" /\ data = BaseURI) =>
        /\ last.result.outcome = "return"
        /\ last.result.target = RFCTarget(last.result.reference)

\* the path of the buffer, as a fresh object returns it
PathOf(d) == path(basic_uri(d), Build).ret

\* text s without its last segment and the "/" before it (RFC 3986, 5.2.4)
WithoutLastSegment(s) ==
    IF find_last_of(s, Ord("/")) = NPOS THEN <<>>
    ELSE SubSeq(s, 1, find_last_of(s, Ord("/")))

\* the end of the first segment of s, its leading "/" included
FirstSegmentEnd(s) ==
    IF find(s, Ord("/"), 1) = NPOS THEN Len(s) ELSE find(s, Ord("/"), 1)

\* remove_dot_segments of RFC 3986, section 5.2.4: input and output buffer
RECURSIVE RemoveDots(_, _)
RemoveDots(in, out) ==
    CASE in = <<>> -> out
      [] starts_with(in, S(<<".", ".", "/">>)) ->
             RemoveDots(SubSeq(in, 4, Len(in)), out)
      [] starts_with(in, S(<<".", "/">>)) ->
             RemoveDots(SubSeq(in, 3, Len(in)), out)
      [] starts_with(in, S(<<"/", ".", "/">>)) ->
             RemoveDots(SubSeq(in, 3, Len(in)), out)
      [] in = S(<<"/", ".">>) -> RemoveDots(S(<<"/">>), out)
      [] starts_with(in, S(<<"/", ".", ".", "/">>)) ->
             RemoveDots(SubSeq(in, 4, Len(in)), WithoutLastSegment(out))
      [] in = S(<<"/", ".", ".">>) ->
             RemoveDots(S(<<"/">>), WithoutLastSegment(out))
      [] in = S(<<".">>) \/ in = S(<<".", ".">>) -> out
      [] OTHER ->
             RemoveDots(SubSeq(in, FirstSegmentEnd(in) + 1, Len(in)),
                        out \o SubSeq(in, 1, FirstSegmentEnd(in)))

\* C16: after normalize_path() the path is remove_dot_segments of the path
\* before the call, and none of its segments is "." or "..".
C16_NormalizePath ==
    [][(alive /\ last'.op = "normalize_path") =>
           /\ PathOf(data') = RemoveDots(PathOf(data), <<>>)
           /\ \A i \in 1..Len(SplitOn(PathOf(data'), Ord("/"))) :
                  SplitOn(PathOf(data'), Ord("/"))[i]
                      \notin {S(<<".">>), S(<<".", ".">>)}]_vars

\* the texts of a sequence joined with the character c between them
RECURSIVE JoinWith(_, _)
JoinWith(parts, c) ==
    IF parts = <<>> THEN <<>>
    ELSE IF Len(parts) = 1 THEN parts[1]
    ELSE parts[1] \o <<c>> \o JoinWith(Tail(parts), c)

\* the host of the buffer, as a fresh object returns it
HostOf(d) == host(basic_uri(d), Build).ret

\* the host is no IP address and has at least three labels, none empty
DomainName(h) ==
    /\ ~is_ip(h)
    /\ Len(SplitOn(h, Ord("."))) >= 3
    /\ \A i \in 1..Len(SplitOn(h, Ord("."))) : SplitOn(h, Ord("."))[i] # <<>>

\* the three parts of the host as the object at hand returns them
DomainParts ==
    [sub |-> subdomains(Self, Build).ret,
     sld |-> second_level_domain(Self, Build).ret,
     tld |-> top_level_domain(Self, Build).ret]

\* C17: for a host that is no IP address and has n >= 3 non-empty labels,
\* top_level_domain() is the last label, second_level_domain() the one
\* before it, subdomains() all labels before that joined with ".", and the
\* three joined with "." are host().
C17_DomainDecomposition ==
    (/\ alive
     /\ last.op \in {"top_level_domain", "second_level_domain", "subdomains"}
     /\ DomainName(HostOf(data))) =>
        /\ DomainParts.tld
               = SplitOn(HostOf(data), Ord("."))[
                     Len(SplitOn(HostOf(data), Ord(".")))]
        /\ DomainParts.sld
               = SplitOn(HostOf(data), Ord("."))[
                     Len(SplitOn(HostOf(data), Ord("."))) - 1]
        /\ DomainParts.sub
               = JoinWith(SubSeq(SplitOn(HostOf(data), Ord(".")), 1,
                              Len(SplitOn(HostOf(data), Ord("."))) - 2),
                          Ord("."))
        /\ JoinWith(<<DomainParts.sub, DomainParts.sld, DomainParts.tld>>,
                    Ord(".")) = HostOf(data)
        /\ last.result = DomainParts[
               CASE last.op = "top_level_domain" -> "tld"
                 [] last.op = "second_level_domain" -> "sld"
                 [] last.op = "subdomains" -> "sub"]

\* www.example.co.uk was asked for its subdomains, which are www.example
C17_Witness ==
    /\ last = [op |-> "subdomains",
               result |-> S(<<"w", "w", "w", ".", "e", "x", "a", "m", "p",
                              "l", "e">>)]
    /\ second_level_domain(Self, Build).ret = S(<<"c", "o">>)
    /\ top_level_domain(Self, Build).ret = S(<<"u", "k">>)

\* the decimal value of a text of digits
RECURSIVE DecimalValue(_)
DecimalValue(str) ==
    IF str = <<>> THEN 0
    ELSE DecimalValue(SubSeq(str, 1, Len(str) - 1)) * 10
             + (str[Len(str)] - Ord("0"))

\* the port written in the buffer: what is between the ':' at port_start and
\* the end of the authority
PortText ==
    sv_substr(data, Add(port_start, 1),
              Sub(Sub(authority_end, port_start), 1))

\* the default port of a scheme
DefaultPortOf(_scheme) ==
    CASE _scheme = S(<<"h", "t", "t", "p">>) -> 80
      [] _scheme = S(<<"h", "t", "t", "p", "s">>) -> 443
      [] _scheme = S(<<"f", "t", "p">>) -> 21
      [] _scheme = S(<<"s", "s", "h">>) -> 22
      [] _scheme = S(<<"t", "e", "l", "n", "e", "t">>) -> 23
      [] _scheme = S(<<"f", "t", "p", "s">>) -> 990
      [] OTHER -> 0

\* C19: port_uint16() is the numeric value of the port whenever has_port()
\* is true, for 0..65535 and for longer digit strings alike (no value taken
\* modulo 2^16), and default_port() otherwise: 80 for http, 443 for https,
\* 21 for ftp, 22 for ssh, 23 for telnet, 990 for ftps, 0 for other schemes.
C19_PortNumber ==
    (alive /\ last.op = "port_uint16") =>
        last.result
            = IF has_port(Self, Build).ret THEN DecimalValue(PortText)
              ELSE DefaultPortOf(scheme(Self, Build).ret)

\* C20: for a non-empty path, path_structured() holds the pieces of path()
\* cut at every "/", a leading "/" giving a leading empty segment, and the
\* segments joined with "/" are path() again, empty segments and the one
\* after a trailing "/" included.
C20_PathSegments ==
    (alive /\ last.op = "path_structured" /\ path(Self, Build).ret # <<>>) =>
        /\ last.result = SplitOn(path(Self, Build).ret, Ord("/"))
        /\ JoinWith(last.result, Ord("/")) = path(Self, Build).ret

\* the path "/a//" was cut into an empty segment, "a" and two empty segments
C20_Witness ==
    /\ alive
    /\ path(Self, Build).ret = S(<<"/", "a", "/", "/">>)
    /\ last = [op |-> "path_structured",
               result |-> <<(<<>>), S(<<"a">>), <<>>, <<>>>>]

\* C21: every accessor terminates: the loop of query_structured() ends for
\* every query, also with '&' in it, and the loops of path_structured() and
\* domains() end for every path and host.
C21_BoundedOperations ==
    /\ last.op = "query_structured" => last.result.outcome # "hang"
    /\ last.op \in {"path_structured", "domains"} => alive

\* C29: is_normalized() is true exactly when no segment of path_structured()
\* is "." or "..".
C29_IsNormalized ==
    (alive /\ last.op = "is_normalized") =>
        last.result
            = (\A i \in 1..Len(path_structured(Self, Build).ret) :
                   path_structured(Self, Build).ret[i]
                       \notin {S(<<".">>), S(<<".", ".">>)})


-----------------------------------------------------------------------------
(* Claims about two reading threads (SpecThreads).                         *)

\* C30: two threads call accessors on one URI whose offsets are unknown.
\* Under every interleaving each call returns what it returns on a URI no
\* other thread touches, the process ends only where such a call ends it,
\* and no thread that has left parse_scheme, having run or skipped it, finds
\* authority_start still unknown.
C30_ConcurrentReads ==
    /\ \A t \in Threads :
           /\ threads[t].pc = "done" =>
                  Fresh(threads[t].op, data)
                      = [returns |-> TRUE, value |-> threads[t].result]
           /\ threads[t].pc = "has_authority" => authority_start # NPOS
    /\ ~alive => \E t \in Threads :
                     /\ threads[t].op \in ThreadOps
                     /\ ~Fresh(threads[t].op, data).returns

====
